---------------------------- MODULE Spec2Model ----------------------------
(***************************************************************************)
(* Trade-execution subsystem of the sports terminal: the prediction-to-    *)
(* market matcher (web/src/lib/matcher.ts), contract sizing                *)
(* (web/src/lib/terminal-settings.ts) and PEM key import                   *)
(* (kalshi-crypto.ts, TerminalSettings.tsx).                               *)
(*                                                                         *)
(* Numbers: probabilities, prices and dollar amounts are fixed-point       *)
(* hundredths (0.72 is 72, 1.0 is ONE); an edge is kept in hundredths of a *)
(* percentage point (+12.0 is 1200).  Strings that the code searches or    *)
(* splits are sequences of one-character strings.                          *)
(***************************************************************************)
EXTENDS Integers, Sequences, FiniteSets, TLC

VARIABLES
    predictions,   \* matcher input: Prediction[] (matcher.ts:78)
    markets,       \* matcher input: KalshiMarket[] (matcher.ts:79)
    matched,       \* matcher output: MatchedGame[], or NotCalled
    origin,        \* ghost: for matched[i], the input positions it was built from
    mpc,           \* "idle" before the call, "done" after it
    sizingMode,    \* settings.sizingMode passed to computeContractCount
    betAmount,     \* settings.betAmount, dollars or contracts, in hundredths
    priceDollars,  \* the price argument, in hundredths of a dollar
    contractCount, \* the value computeContractCount returned
    spc,           \* "idle" before the call, "done" after it
    keyStore,      \* IndexedDB entry "kalshi-crypto-key": a CryptoKey or NoKey
    pemStatus,     \* TerminalSettings state: "none", "stored", "importing", "error"
    pemError,      \* TerminalSettings state: the message shown, or NoError
    uploads,       \* the handlePemUpload calls made so far, each with its progress
    clearPc,       \* handleClearPem: "idle", or "deleting" while the delete is awaited
    keyIdStore,    \* localStorage entry "kalshi-key-id": a string or NullKeyId
    session,       \* what the proxy finds for the caller: user and subscription
    calls,         \* the exchange-client calls made so far, each with its progress
    toProxy,       \* log: the bodies POSTed by the browser to /api/kalshi/proxy
    upstream,      \* log: the requests the proxy sent to the exchange
    clock,         \* the value Date.now() returned last
    scanPc,        \* scanner state: "Idle", "Polling", "Evaluating", "Placing", "Disabled"
    scanConfig,    \* ScannerConfig: edge threshold, sizing mode, amount
    stopRequested, \* the stop flag of the scanner loop
    dedupedTickers,\* tickers with a placed order in this scanner session
    cycleOpps,     \* the opportunities of the cycle under evaluation
    cycleIdx,      \* position in cycleOpps of the opportunity under evaluation
    cycleNo,       \* number of cycles started in this session
    placedOrders,  \* log: the orders placed successfully, in order
    scanEvents,    \* log: the "scan", "placed" and "error" events emitted
    tradingForm,   \* TerminalSettings state: edgeThreshold, sizingMode, betAmount, saved
    settingsStore, \* localStorage entry "terminal-settings": the JSON saved, or null
    envelope,      \* importPemKey: the parsed DER, its format and the bytes imported
    row,           \* TerminalGameRow: its props and state
    orders,        \* log: the placeOrder calls of the row, each with its progress
    manual,        \* TerminalManual state: predictions, markets, loading flags
    refreshes      \* the fetchPredictions and fetchMarkets calls made so far

matcherVars == <<predictions, markets, matched, origin, mpc>>

sizingVars == <<sizingMode, betAmount, priceDollars, contractCount, spc>>

keyVars == <<keyStore, pemStatus, pemError, uploads, clearPc>>

clientVars == <<keyIdStore, session, calls, toProxy, upstream, clock>>

scannerVars ==
    <<scanPc, scanConfig, stopRequested, dedupedTickers, cycleOpps, cycleIdx,
      cycleNo, placedOrders, scanEvents>>

screenVars ==
    <<tradingForm, settingsStore, envelope, row, orders, manual, refreshes>>

vars == <<matcherVars, sizingVars, keyVars, clientVars, scannerVars, screenVars>>

\* ------------------------------------------------------------------------
\* JavaScript values used by the matcher

\* A field of type number | null | undefined is a tagged value, so that null
\* and a missing property stay distinct from every number.
Num(n) == [tag |-> "number", n |-> n]

\* null (PREDICTION, PREDICTION_PCT, yesAsk/noAsk in a MatchedGame)
Null == [tag |-> "null", n |-> 0]

\* a property that is absent (optional yesAsk / noAsk of a KalshiMarket)
Undefined == [tag |-> "undefined", n |-> 0]

\* v ?? d: d when v is null or undefined, else the number v
Coalesce(v, d) == IF v.tag = "number" THEN v.n ELSE d

\* the number 1.0 in hundredths
ONE == 100

\* ------------------------------------------------------------------------
\* Strings as character sequences

\* s.startsWith(t) at position i (1-based) of s
MatchesAt(s, t, i) ==
    /\ i + Len(t) - 1 <= Len(s)
    /\ \A k \in 1..Len(t) : s[i + k - 1] = t[k]

\* String.prototype.includes on character sequences
IncludesStr(s, t) == \E i \in 1..(Len(s) + 1) : MatchesAt(s, t, i)

\* String.prototype.split with a one-character separator: the pieces between
\* consecutive occurrences of the separator, in order (one more piece than
\* there are separators)
Split(s, sep) ==
    LET at == {i \in 1..Len(s) : s[i] = sep}
        \* position of the k-th separator; 0 before the first piece and
        \* Len(s) + 1 after the last
        pos(k) == IF k = 0 THEN 0
                  ELSE IF k > Cardinality(at) THEN Len(s) + 1
                  ELSE CHOOSE i \in at : Cardinality({j \in at : j <= i}) = k
    IN  [k \in 1..(Cardinality(at) + 1) |-> SubSeq(s, pos(k - 1) + 1, pos(k) - 1)]

\* ------------------------------------------------------------------------
\* matcher.ts

TEAM_ABBR_MAP ==
    "Atlanta Hawks" :> <<"A","T","L">>
    @@ "Boston Celtics" :> <<"B","O","S">>
    @@ "Brooklyn Nets" :> <<"B","K","N">>
    @@ "Charlotte Hornets" :> <<"C","H","A">>
    @@ "Chicago Bulls" :> <<"C","H","I">>
    @@ "Cleveland Cavaliers" :> <<"C","L","E">>
    @@ "Dallas Mavericks" :> <<"D","A","L">>
    @@ "Denver Nuggets" :> <<"D","E","N">>
    @@ "Detroit Pistons" :> <<"D","E","T">>
    @@ "Golden State Warriors" :> <<"G","S","W">>
    @@ "Houston Rockets" :> <<"H","O","U">>
    @@ "Indiana Pacers" :> <<"I","N","D">>
    @@ "Los Angeles Clippers" :> <<"L","A","C">>
    @@ "Los Angeles Lakers" :> <<"L","A","L">>
    @@ "Memphis Grizzlies" :> <<"M","E","M">>
    @@ "Miami Heat" :> <<"M","I","A">>
    @@ "Milwaukee Bucks" :> <<"M","I","L">>
    @@ "Minnesota Timberwolves" :> <<"M","I","N">>
    @@ "New Orleans Pelicans" :> <<"N","O","P">>
    @@ "New York Knicks" :> <<"N","Y","K">>
    @@ "Oklahoma City Thunder" :> <<"O","K","C">>
    @@ "Orlando Magic" :> <<"O","R","L">>
    @@ "Philadelphia 76ers" :> <<"P","H","I">>
    @@ "Phoenix Suns" :> <<"P","H","X">>
    @@ "Portland Trail Blazers" :> <<"P","O","R">>
    @@ "Sacramento Kings" :> <<"S","A","C">>
    @@ "San Antonio Spurs" :> <<"S","A","S">>
    @@ "Toronto Raptors" :> <<"T","O","R">>
    @@ "Utah Jazz" :> <<"U","T","A">>
    @@ "Washington Wizards" :> <<"W","A","S">>

\* What the object literal TEAM_ABBR_MAP inherits from Object.prototype: a
\* key that is not an own property still resolves through the prototype
\* chain.  "__proto__" resolves to Object.prototype itself, an object whose
\* string form is "[object Object]".
ObjectPrototypeKeys ==
    "__proto__" :> <<"[","o","b","j","e","c","t"," ","O","b","j","e","c","t","]">>

\* TEAM_ABBR_MAP[label]: an own entry (a string), an inherited property (an
\* object) or undefined
TeamAbbrLookup(label) ==
    IF label \in DOMAIN TEAM_ABBR_MAP
        THEN [type |-> "string", str |-> TEAM_ABBR_MAP[label]]
    ELSE IF label \in DOMAIN ObjectPrototypeKeys
        THEN [type |-> "object", str |-> ObjectPrototypeKeys[label]]
    ELSE [type |-> "undefined", str |-> <<>>]

\* JavaScript truthiness of a looked-up value (the test !homeAbbr)
Truthy(v) ==
    \/ v.type = "object"
    \/ v.type = "string" /\ v.str # <<>>

\* eventTicker.includes(abbr): the argument is coerced to its string form
EventIncludes(eventTicker, abbr) == IncludesStr(eventTicker, abbr.str)

\* tickerSuffix !== winnerAbbr: strict inequality of a string and a value
SuffixDiffers(tickerSuffix, abbr) ==
    ~(abbr.type = "string" /\ abbr.str = tickerSuffix)

\* parts[parts.length - 1] || ""
tickerTeamSuffix(ticker) ==
    LET parts == Split(ticker, "-")
    IN  parts[Len(parts)]

\* a slip that picks the winner from the probability instead of the
\* PREDICTION field
PredictedWinner_ByProbability(pred) ==
    IF 2 * pred.PREDICTION_PCT.n >= ONE THEN pred.HOME_NAME ELSE pred.AWAY_NAME

\* pred.PREDICTION === 1 ? pred.HOME_NAME : pred.AWAY_NAME
PredictedWinner(pred) ==
    IF pred.PREDICTION = Num(1) THEN pred.HOME_NAME ELSE pred.AWAY_NAME

\* pred.PREDICTION === 1 ? homeAbbr : awayAbbr
WinnerAbbr(pred) ==
    IF pred.PREDICTION = Num(1)
        THEN TeamAbbrLookup(pred.HOME_NAME)
        ELSE TeamAbbrLookup(pred.AWAY_NAME)

\* pred.PREDICTION === 1 ? pred.PREDICTION_PCT : 1.0 - pred.PREDICTION_PCT
ModelProb(pred) ==
    IF pred.PREDICTION = Num(1)
        THEN pred.PREDICTION_PCT.n
        ELSE ONE - pred.PREDICTION_PCT.n

\* the two guards that skip a prediction (matcher.ts:84, :89)
PredictionUsable(pred) ==
    /\ pred.PREDICTION # Null
    /\ pred.PREDICTION_PCT # Null
    /\ Truthy(TeamAbbrLookup(pred.HOME_NAME))
    /\ Truthy(TeamAbbrLookup(pred.AWAY_NAME))

\* the two guards of the inner loop that skip a market (matcher.ts:107, :112)
StructurallyQualifies(pred, market) ==
    /\ EventIncludes(market.eventTicker, TeamAbbrLookup(pred.HOME_NAME))
    /\ EventIncludes(market.eventTicker, TeamAbbrLookup(pred.AWAY_NAME))
    /\ ~SuffixDiffers(tickerTeamSuffix(market.ticker), WinnerAbbr(pred))

\* market.yesAsk ?? 0
YesAskOrZero(market) == Coalesce(market.yesAsk, 0)

\* value ?? null, for the yesAsk / noAsk copied into the MatchedGame
OrNull(v) == IF v.tag = "number" THEN v ELSE Null

\* an ask guard that lets every instrument through
ValidPrice_Any(yesAsk) == TRUE

\* the price guard: yesAsk <= 0 || yesAsk >= 1 skips the market
ValidPrice(yesAsk) == ~(yesAsk <= 0 \/ yesAsk >= ONE)

\* a slip that subtracts the wrong way round
Edge_Reversed(modelProb, yesAsk) == (yesAsk - modelProb) * 100

\* (modelProb - yesAsk) * 100
Edge(modelProb, yesAsk) == (modelProb - yesAsk) * 100

\* the object pushed onto matched (matcher.ts:123-136)
MakeMatchedGame(pred, market) ==
    [ gameId            |-> pred.GAME_ID,
      homeName          |-> pred.HOME_NAME,
      awayName          |-> pred.AWAY_NAME,
      predictedWinner   |-> PredictedWinner(pred),
      modelProb         |-> ModelProb(pred),
      marketImpliedProb |-> YesAskOrZero(market),
      edge              |-> Edge(ModelProb(pred), YesAskOrZero(market)),
      marketTicker      |-> market.ticker,
      marketTitle       |-> market.title,
      yesAsk            |-> OrNull(market.yesAsk),
      noAsk             |-> OrNull(market.noAsk),
      betSide           |-> "yes" ]

\* The inner loop for one prediction, from market position j on: markets that
\* fail a guard are skipped (continue), the first one that passes all of them
\* is pushed and ends the loop (break).  Result: the entries pushed (none or
\* one), each with the input positions it came from.
RECURSIVE MarketLoop(_, _, _, _)
MarketLoop(pi, pred, mkts, j) ==
    IF j > Len(mkts) THEN <<>>
    ELSE IF ~StructurallyQualifies(pred, mkts[j]) THEN MarketLoop(pi, pred, mkts, j + 1)
    ELSE IF ~ValidPrice(YesAskOrZero(mkts[j])) THEN MarketLoop(pi, pred, mkts, j + 1)
    ELSE << [game |-> MakeMatchedGame(pred, mkts[j]), pi |-> pi, mi |-> j] >>

\* The outer loop over predictions, from position i on (matcher.ts:83-140)
RECURSIVE PredictionLoop(_, _, _)
PredictionLoop(preds, mkts, i) ==
    IF i > Len(preds) THEN <<>>
    ELSE IF ~PredictionUsable(preds[i]) THEN PredictionLoop(preds, mkts, i + 1)
    ELSE MarketLoop(i, preds[i], mkts, 1) \o PredictionLoop(preds, mkts, i + 1)

\* a slip that sorts ascending
CompareEdgeDesc_Ascending(a, b) == a.game.edge - b.game.edge

\* the comparator (a, b) => b.edge - a.edge: negative keeps a before b
CompareEdgeDesc(a, b) == b.game.edge - a.game.edge

\* Array.prototype.sort is stable: x goes after every entry it does not
\* strictly precede under the comparator
RECURSIVE InsertSorted(_, _)
InsertSorted(sorted, x) ==
    IF sorted = <<>> THEN <<x>>
    ELSE IF CompareEdgeDesc(Head(sorted), x) <= 0
        THEN <<Head(sorted)>> \o InsertSorted(Tail(sorted), x)
        ELSE <<x>> \o sorted

RECURSIVE SortFrom(_, _, _)
SortFrom(list, i, acc) ==
    IF i > Len(list) THEN acc
    ELSE SortFrom(list, i + 1, InsertSorted(acc, list[i]))

\* matched.sort((a, b) => b.edge - a.edge)
SortByEdgeDesc(list) == SortFrom(list, 1, <<>>)

\* matchPredictionsToMarkets(predictions, markets), entries still tagged with
\* their input positions
MatchTagged(preds, mkts) == SortByEdgeDesc(PredictionLoop(preds, mkts, 1))

\* ------------------------------------------------------------------------
\* kalshi-crypto.ts: PEM parsing and key import

WhiteSpace == {" ", "\t", "\n", "\r"}

RECURSIVE TrimStart(_)
TrimStart(s) ==
    IF s # <<>> /\ Head(s) \in WhiteSpace THEN TrimStart(Tail(s)) ELSE s

RECURSIVE TrimEnd(_)
TrimEnd(s) ==
    IF s # <<>> /\ s[Len(s)] \in WhiteSpace
        THEN TrimEnd(SubSeq(s, 1, Len(s) - 1))
        ELSE s

\* String.prototype.trim
Trim(s) == TrimEnd(TrimStart(s))

\* String.prototype.startsWith
StartsWith(s, t) == MatchesAt(s, t, 1)

\* s.replace(/\s/g, "")
RemoveWhiteSpace(s) == SelectSeq(s, LAMBDA c : c \notin WhiteSpace)

MARKER_PKCS8 ==
    <<"B","E","G","I","N"," ","P","R","I","V","A","T","E"," ","K","E","Y">>

MARKER_PKCS1 ==
    <<"B","E","G","I","N"," ","R","S","A"," ","P","R","I","V","A","T","E",
      " ","K","E","Y">>

DASHES ==
    <<"-","-","-","-","-">>

BASE64_ALPHABET ==
    <<"A","B","C","D","E","F","G","H","I","J","K","L","M","N","O","P","Q",
      "R","S","T","U","V","W","X","Y","Z","a","b","c","d","e","f","g","h",
      "i","j","k","l","m","n","o","p","q","r","s","t","u","v","w","x","y",
      "z","0","1","2","3","4","5","6","7","8","9","+","/">>

PEM_PKCS8 ==
    <<"-","-","-","-","-","B","E","G","I","N"," ","P","R","I","V","A","T",
      "E"," ","K","E","Y","-","-","-","-","-","\n","Q","U","J","D","\n","-",
      "-","-","-","-","E","N","D"," ","P","R","I","V","A","T","E"," ","K",
      "E","Y","-","-","-","-","-","\n">>

PEM_PKCS1 ==
    <<"-","-","-","-","-","B","E","G","I","N"," ","R","S","A"," ","P","R",
      "I","V","A","T","E"," ","K","E","Y","-","-","-","-","-","\n","Q","U",
      "J","D","R","A","=","=","\n","-","-","-","-","-","E","N","D"," ","R",
      "S","A"," ","P","R","I","V","A","T","E"," ","K","E","Y","-","-","-",
      "-","-","\n">>

PEM_EC ==
    <<"-","-","-","-","-","B","E","G","I","N"," ","E","C"," ","P","R","I",
      "V","A","T","E"," ","K","E","Y","-","-","-","-","-","\n","Q","U","J",
      "D","\n","-","-","-","-","-","E","N","D"," ","E","C"," ","P","R","I",
      "V","A","T","E"," ","K","E","Y","-","-","-","-","-","\n">>

PEM_ENCRYPTED ==
    <<"-","-","-","-","-","B","E","G","I","N"," ","E","N","C","R","Y","P",
      "T","E","D"," ","P","R","I","V","A","T","E"," ","K","E","Y","-","-",
      "-","-","-","\n","Q","U","J","D","\n","-","-","-","-","-","E","N","D",
      " ","E","N","C","R","Y","P","T","E","D"," ","P","R","I","V","A","T",
      "E"," ","K","E","Y","-","-","-","-","-","\n">>

PEM_CERT_CRLF ==
    <<"\n","-","-","-","-","-","B","E","G","I","N"," ","C","E","R","T","I",
      "F","I","C","A","T","E","-","-","-","-","-","\r","\n","Q","U","J","D",
      "\r","\n","-","-","-","-","-","E","N","D"," ","C","E","R","T","I","F",
      "I","C","A","T","E","-","-","-","-","-","\r","\n">>

PEM_BAD_BASE64 ==
    <<"-","-","-","-","-","B","E","G","I","N"," ","P","R","I","V","A","T",
      "E"," ","K","E","Y","-","-","-","-","-","\n","Q","!","J","D","\n","-",
      "-","-","-","-","E","N","D"," ","P","R","I","V","A","T","E"," ","K",
      "E","Y","-","-","-","-","-","\n">>

PEM_NO_HEADER ==
    <<"Q","U","J","D">>

\* the message of the Error thrown for an unsupported header: a fixed text
\* followed by the header
UnsupportedFormatText ==
    "Unsupported PEM format. Expected \"BEGIN PRIVATE KEY\" (PKCS#8) or \"BEGIN RSA PRIVATE KEY\" (PKCS#1), got: "

ErrorMessage(text, detail) == [text |-> text, detail |-> detail]

NoError == ErrorMessage("", <<>>)

\* const header = lines[0].trim(), with lines = pem.trim().split("\n")
PemHeader(pem) == Trim(Split(Trim(pem), "\n")[1])

\* a slip that looks for "PRIVATE KEY" anywhere in the header
DetectFormat_AnyPrivateKey(header) ==
    IF IncludesStr(header, MARKER_PKCS1) THEN "pkcs1"
    ELSE IF IncludesStr(header, SubSeq(MARKER_PKCS8, 7, Len(MARKER_PKCS8))) THEN "pkcs8"
    ELSE "unsupported"

\* the header test of parsePem (kalshi-crypto.ts:75-83)
DetectFormat(header) ==
    IF IncludesStr(header, MARKER_PKCS8) THEN "pkcs8"
    ELSE IF IncludesStr(header, MARKER_PKCS1) THEN "pkcs1"
    ELSE "unsupported"

\* lines.filter((line) => !line.startsWith("-----")).join("")
RECURSIVE JoinBodyLines(_, _)
JoinBodyLines(lines, i) ==
    IF i > Len(lines) THEN <<>>
    ELSE IF StartsWith(lines[i], DASHES) THEN JoinBodyLines(lines, i + 1)
    ELSE lines[i] \o JoinBodyLines(lines, i + 1)

IsBase64Char(c) == \E i \in 1..Len(BASE64_ALPHABET) : BASE64_ALPHABET[i] = c

\* the 6-bit value of a base64 character
Base64Value(c) == (CHOOSE i \in 1..Len(BASE64_ALPHABET) : BASE64_ALPHABET[i] = c) - 1

\* atob removes one or two trailing "=" when the length is a multiple of 4
StripPadding(s) ==
    IF Len(s) % 4 = 0 /\ Len(s) >= 1 /\ s[Len(s)] = "="
        THEN IF Len(s) >= 2 /\ s[Len(s) - 1] = "="
                THEN SubSeq(s, 1, Len(s) - 2)
                ELSE SubSeq(s, 1, Len(s) - 1)
        ELSE s

\* atob throws InvalidCharacterError on a length of 1 mod 4 or a character
\* outside the alphabet
AtobThrows(data) ==
    LET d == StripPadding(data)
    IN  \/ Len(d) % 4 = 1
        \/ \E i \in 1..Len(d) : ~IsBase64Char(d[i])

\* the bytes of the 6-bit values v from position i on: 4 values give 3 bytes,
\* a last group of 3 gives 2 bytes, a last group of 2 gives 1 byte
RECURSIVE DecodeFrom(_, _)
DecodeFrom(v, i) ==
    LET left == Len(v) - i + 1
    IN  IF left <= 1 THEN <<>>
        ELSE IF left >= 4 THEN
            LET n == v[i] * 262144 + v[i + 1] * 4096 + v[i + 2] * 64 + v[i + 3]
            IN  <<n \div 65536, (n \div 256) % 256, n % 256>> \o DecodeFrom(v, i + 4)
        ELSE IF left = 3 THEN
            LET n == (v[i] * 4096 + v[i + 1] * 64 + v[i + 2]) \div 4
            IN  <<n \div 256, n % 256>>
        ELSE <<(v[i] * 64 + v[i + 1]) \div 16>>

\* atob(b64), as the byte values of the binary string; the loop at
\* kalshi-crypto.ts:92-95 copies them into the Uint8Array unchanged
Atob(data) ==
    LET d == StripPadding(data)
    IN  DecodeFrom([i \in 1..Len(d) |-> Base64Value(d[i])], 1)

\* parsePem(pem): the DER bytes and the detected format, or the error thrown
parsePem(pem) ==
    LET lines  == Split(Trim(pem), "\n")
        header == Trim(lines[1])
        format == DetectFormat(header)
        b64    == RemoveWhiteSpace(JoinBodyLines(lines, 1))
    IN  IF format = "unsupported"
            THEN [ok |-> FALSE, der |-> <<>>, format |-> format,
                  error |-> ErrorMessage(UnsupportedFormatText, header)]
        ELSE IF AtobThrows(b64)
            THEN [ok |-> FALSE, der |-> <<>>, format |-> format,
                  error |-> ErrorMessage("InvalidCharacterError", <<>>)]
        ELSE [ok |-> TRUE, der |-> Atob(b64), format |-> format, error |-> NoError]

\* derEncode(tag, length): a DER tag and length prefix
derEncode(tag, length) ==
    IF length < 128 THEN <<tag, length>>
    ELSE IF length < 256 THEN <<tag, 129, length>>
    ELSE <<tag, 130, (length \div 256) % 256, length % 256>>

\* INTEGER 0
PKCS8_VERSION == <<2, 1, 0>>

\* SEQUENCE { OID 1.2.840.113549.1.1.1, NULL }
PKCS8_ALGORITHM_ID == <<48, 13, 6, 9, 42, 134, 72, 134, 247, 13, 1, 1, 1, 5, 0>>

\* pkcs1ToPkcs8(pkcs1Der): the PKCS#1 key wrapped in a PKCS#8 envelope
pkcs1ToPkcs8(pkcs1Der) ==
    LET octetStringHeader == derEncode(4, Len(pkcs1Der))
        innerLen == Len(PKCS8_VERSION) + Len(PKCS8_ALGORITHM_ID)
                        + Len(octetStringHeader) + Len(pkcs1Der)
        outerHeader == derEncode(48, innerLen)
    IN  outerHeader \o PKCS8_VERSION \o PKCS8_ALGORITHM_ID
            \o octetStringHeader \o pkcs1Der

\* format === "pkcs1" ? pkcs1ToPkcs8(der) : der
Pkcs8Der(parsed) ==
    IF parsed.format = "pkcs1" THEN pkcs1ToPkcs8(parsed.der) ELSE parsed.der

\* an import that leaves the key extractable
CryptoKey_Extractable(der) ==
    [ type |-> "private", algorithm |-> "RSA-PSS", extractable |-> TRUE,
      usages |-> {"sign"}, material |-> der ]

\* the CryptoKey that crypto.subtle.importKey("pkcs8", der, RSA-PSS/SHA-256,
\* false, ["sign"]) resolves to
CryptoKey(der) ==
    [ type |-> "private", algorithm |-> "RSA-PSS", extractable |-> FALSE,
      usages |-> {"sign"}, material |-> der ]

\* nothing under the IndexedDB key
NoKey ==
    [ type |-> "none", algorithm |-> "", extractable |-> FALSE,
      usages |-> {}, material |-> <<>> ]

\* ------------------------------------------------------------------------
\* TerminalSettings.tsx: the PEM upload and removal handlers

\* the files a user may pick
PemFiles ==
    << PEM_PKCS8, PEM_PKCS1, PEM_EC, PEM_ENCRYPTED, PEM_CERT_CRLF,
       PEM_BAD_BASE64, PEM_NO_HEADER >>

\* bound on the number of uploads in one session
MaxUploads == 2

\* a handlePemUpload call that has just set "importing" and awaits file.text()
NewUpload(f) ==
    [ file |-> f, pc |-> "reading", der |-> <<>>, key |-> NoKey,
      calledImport |-> FALSE, wroteStore |-> FALSE, error |-> NoError ]

\* the key store and settings screen with no key imported
KeysParked ==
    /\ keyStore = NoKey
    /\ pemStatus = "none"
    /\ pemError = NoError
    /\ uploads = <<>>
    /\ clearPc = "idle"

\* ------------------------------------------------------------------------
\* Inputs of the matcher

\* bounds on the lengths of the two input lists
MaxPredictions == 2

MaxMarkets == 2

EVT_LALBOS == <<"K","X","N","B","A","G","A","M","E","-","2","6","F","E","B","1","9","L","A","L","B","O","S">>

EVT_PROTO == <<"K","X","N","B","A","G","A","M","E","-","[","o","b","j","e","c","t"," ","O","b","j","e","c","t","]","B","O","S">>

SUFFIX_BOS == <<"-","B","O","S">>

SUFFIX_LAL == <<"-","L","A","L">>

Pred(id, home, away, prediction, pct) ==
    [ GAME_ID |-> id, HOME_NAME |-> home, AWAY_NAME |-> away,
      PREDICTION |-> prediction, PREDICTION_PCT |-> pct ]

Market(event, suffix, title, yesAsk, noAsk) ==
    [ ticker |-> event \o suffix, title |-> title, eventTicker |-> event,
      yesAsk |-> yesAsk, noAsk |-> noAsk ]

\* rows of the gamelogs table as the matcher may receive them
PredictionSet ==
    { Pred(1, "Boston Celtics", "Los Angeles Lakers", Num(1), Num(72)),
      Pred(2, "Boston Celtics", "Los Angeles Lakers", Num(0), Num(28)),
      Pred(3, "Los Angeles Lakers", "Boston Celtics", Num(0), Num(60)),
      Pred(4, "Boston Celtics", "Los Angeles Lakers", Num(1), Num(50)),
      Pred(5, "Boston Celtics", "Los Angeles Lakers", Null, Null),
      Pred(6, "Boston Celtics", "Los Angeles Lakers", Num(1), Null),
      Pred(7, "Boston Celtics", "Seattle SuperSonics", Num(1), Num(72)),
      Pred(8, "__proto__", "Boston Celtics", Num(0), Num(28)) }

\* open markets as fetchNbaMarkets may return them
MarketSet ==
    { Market(EVT_LALBOS, SUFFIX_BOS, "Celtics win", Num(60), Num(42)),
      Market(EVT_LALBOS, SUFFIX_LAL, "Lakers win", Num(41), Num(61)),
      Market(EVT_LALBOS, SUFFIX_BOS, "Celtics win", Undefined, Undefined),
      Market(EVT_LALBOS, SUFFIX_BOS, "Celtics win", Num(ONE), Undefined),
      Market(EVT_LALBOS, SUFFIX_LAL, "Lakers win", Num(0), Num(ONE)),
      Market(EVT_PROTO, SUFFIX_BOS, "Celtics win", Num(20), Num(82)) }

SeqsUpTo(S, n) == UNION { [1..k -> S] : k \in 0..n }

NotCalled == "not-called"

\* ------------------------------------------------------------------------
\* terminal-settings.ts: computeContractCount

Max(a, b) == IF a >= b THEN a ELSE b

\* Math.floor(x) of a number x given in hundredths
Floor(x) == x \div ONE

\* The values Math.floor(a / p) can take for p > 0, both given in hundredths.
\* The division is an IEEE-754 double division of the doubles nearest to the
\* two decimals, so a quotient that is a whole number in exact arithmetic may
\* come out just below it (7 / 0.07 is 99.99999999999999): the floor is then
\* one less.  A quotient that is not whole is at least 1/p away from the next
\* integer and its floor is exact.
FloorOfQuotient(a, p) ==
    IF a % p = 0 THEN {a \div p, (a \div p) - 1} ELSE {a \div p}

\* a slip that forgets the minimum of one contract
ContractsModeCount_NoMinimum(amount) == Floor(amount)

\* the contracts branch: Math.max(1, Math.floor(settings.betAmount))
ContractsModeCount(amount) == Max(1, Floor(amount))

\* a slip that forgets the minimum of one contract
DollarsModeCount_NoMinimum(amount, price) ==
    IF price <= 0 THEN {1} ELSE FloorOfQuotient(amount, price)

\* the dollars branch: 1 for a price <= 0, else
\* Math.max(1, Math.floor(settings.betAmount / priceDollars))
DollarsModeCount(amount, price) ==
    IF price <= 0 THEN {1}
    ELSE { Max(1, q) : q \in FloorOfQuotient(amount, price) }

\* computeContractCount(settings, priceDollars): the set of values the call
\* can return (one value, except where the double division decides)
computeContractCount(mode, amount, price) ==
    IF mode = "contracts" THEN {ContractsModeCount(amount)}
    ELSE DollarsModeCount(amount, price)

\* bounds of the sizing inputs: amounts are multiples of a quarter dollar from
\* -MinAmountQuarters to MaxAmountQuarters quarters, prices run over every cent
\* from -PriceMargin to ONE + PriceMargin
MaxAmountQuarters == 104

MinAmountQuarters == 6

PriceMargin == 2

AmountSet == { 25 * k : k \in (0 - MinAmountQuarters)..MaxAmountQuarters }

PriceSet == (0 - PriceMargin)..(ONE + PriceMargin)

SizingModes == {"contracts", "dollars"}

\* computeContractCount before any call
SizingParked ==
    /\ sizingMode = "contracts"
    /\ betAmount = 10 * ONE
    /\ priceDollars = 0
    /\ contractCount = 0
    /\ spc = "idle"

\* ------------------------------------------------------------------------
\* The exchange client and the scanner before anything has run

\* localStorage.getItem returns null for a key that was never set
NullKeyId == [tag |-> "null", s |-> <<>>]

\* no caller has signed in, no call was made
ClientParked ==
    /\ keyIdStore = NullKeyId
    /\ session = [user |-> FALSE, active |-> FALSE]
    /\ calls = <<>>
    /\ toProxy = <<>>
    /\ upstream = <<>>
    /\ clock = 0

\* const defaults (terminal-settings.ts:5-9)
defaults ==
    [edgeThreshold |-> Num(10 * ONE), sizingMode |-> "contracts",
     betAmount |-> Num(10 * ONE)]

\* the settings screen as mounted over an empty store, no key envelope
\* built, no bet row and no manual screen shown
ScreensParked ==
    /\ tradingForm = [settings |-> defaults, saved |-> FALSE, timers |-> 0]
    /\ settingsStore = [tag |-> "null", value |-> defaults]
    /\ envelope = [pc |-> "idle", format |-> "pkcs8", der |-> <<>>,
                   pkcs8Der |-> <<>>]
    /\ row = <<>>
    /\ orders = <<>>
    /\ manual = <<>>
    /\ refreshes = <<>>

\* the scanner was never started
ScannerParked ==
    /\ scanPc = "Disabled"
    /\ scanConfig = [edgeThresholdPercent |-> 10 * ONE, sizingMode |-> "contracts",
                     amount |-> 10 * ONE]
    /\ stopRequested = FALSE
    /\ dedupedTickers = {}
    /\ cycleOpps = <<>>
    /\ cycleIdx = 0
    /\ cycleNo = 0
    /\ placedOrders = <<>>
    /\ scanEvents = <<>>

\* ------------------------------------------------------------------------
\* The matcher as a state machine: inputs are drawn, then the call is made

\* the matcher before any input has arrived
MatcherParked ==
    /\ predictions = <<>>
    /\ markets = <<>>
    /\ matched = NotCalled
    /\ origin = <<>>
    /\ mpc = "idle"

InitMatcher ==
    /\ SizingParked
    /\ KeysParked
    /\ ClientParked
    /\ ScannerParked
    /\ ScreensParked
    /\ predictions \in SeqsUpTo(PredictionSet, MaxPredictions)
    /\ markets \in SeqsUpTo(MarketSet, MaxMarkets)
    /\ matched = NotCalled
    /\ origin = <<>>
    /\ mpc = "idle"

\* one call of matchPredictionsToMarkets(predictions, markets)
Match ==
    /\ mpc = "idle"
    /\ LET out == MatchTagged(predictions, markets)
       IN  /\ matched' = [i \in 1..Len(out) |-> out[i].game]
           /\ origin' = [i \in 1..Len(out) |-> [pi |-> out[i].pi, mi |-> out[i].mi]]
    /\ mpc' = "done"
    /\ UNCHANGED <<predictions, markets>>
    /\ UNCHANGED <<sizingVars, keyVars, clientVars, scannerVars, screenVars>>

NextMatcher == Match

SpecMatcher == InitMatcher /\ [][NextMatcher]_vars

\* ------------------------------------------------------------------------
\* computeContractCount as a state machine: arguments are drawn, then the
\* call is made

InitSizing ==
    /\ MatcherParked
    /\ KeysParked
    /\ ClientParked
    /\ ScannerParked
    /\ ScreensParked
    /\ sizingMode \in SizingModes
    /\ betAmount \in AmountSet
    /\ priceDollars \in PriceSet
    /\ contractCount = 0
    /\ spc = "idle"

\* one call of computeContractCount({sizingMode, betAmount}, priceDollars)
ComputeContractCount ==
    /\ spc = "idle"
    /\ \E c \in computeContractCount(sizingMode, betAmount, priceDollars) :
            contractCount' = c
    /\ spc' = "done"
    /\ UNCHANGED <<sizingMode, betAmount, priceDollars>>
    /\ UNCHANGED <<matcherVars, keyVars, clientVars, scannerVars, screenVars>>

NextSizing == ComputeContractCount

SpecSizing == InitSizing /\ [][NextSizing]_vars

\* ------------------------------------------------------------------------
\* The settings screen's key handling as a state machine.  Each await of
\* handlePemUpload and handleClearPem is a point where other handlers run.

\* a key imported in an earlier session
StoredEarlier == CryptoKey(<<48, 0>>)

\* after mount: the status is "stored" exactly when IndexedDB holds a key
InitKeys ==
    /\ MatcherParked
    /\ SizingParked
    /\ ClientParked
    /\ ScannerParked
    /\ ScreensParked
    /\ keyStore \in {NoKey, StoredEarlier}
    /\ pemStatus = (IF keyStore = NoKey THEN "none" ELSE "stored")
    /\ pemError = NoError
    /\ uploads = <<>>
    /\ clearPc = "idle"

SetUpload(a, rec) == uploads' = [uploads EXCEPT ![a] = rec]

\* handlePemUpload up to its first await: a file was picked (the input is
\* rendered unless the status is "stored")
StartUpload(f) ==
    /\ pemStatus # "stored"
    /\ Len(uploads) < MaxUploads
    /\ pemStatus' = "importing"
    /\ pemError' = NoError
    /\ uploads' = Append(uploads, NewUpload(f))
    /\ UNCHANGED <<keyStore, clearPc>>
    /\ UNCHANGED <<matcherVars, sizingVars, clientVars, scannerVars, screenVars>>

\* file.text() resolved and importPemKey ran parsePem: a throw is caught and
\* shown, nothing else happens
ParseFails(a) ==
    /\ uploads[a].pc = "reading"
    /\ LET parsed == parsePem(PemFiles[uploads[a].file])
       IN  /\ ~parsed.ok
           /\ pemStatus' = "error"
           /\ pemError' = parsed.error
           /\ SetUpload(a, [uploads[a] EXCEPT !.pc = "failed", !.error = parsed.error])
    /\ UNCHANGED <<keyStore, clearPc>>
    /\ UNCHANGED <<matcherVars, sizingVars, clientVars, scannerVars, screenVars>>

\* file.text() resolved, parsePem returned, crypto.subtle.importKey is called
\* with the PKCS#8 bytes
ParseOkCallImport(a) ==
    /\ uploads[a].pc = "reading"
    /\ LET parsed == parsePem(PemFiles[uploads[a].file])
       IN  /\ parsed.ok
           /\ SetUpload(a, [uploads[a] EXCEPT !.pc = "importing",
                                              !.der = Pkcs8Der(parsed),
                                              !.calledImport = TRUE])
    /\ UNCHANGED <<keyStore, pemStatus, pemError, clearPc>>
    /\ UNCHANGED <<matcherVars, sizingVars, clientVars, scannerVars, screenVars>>

\* crypto.subtle.importKey resolved with a key; storeCryptoKey is called
ImportResolves(a) ==
    /\ uploads[a].pc = "importing"
    /\ SetUpload(a, [uploads[a] EXCEPT !.pc = "storing",
                                       !.key = CryptoKey(uploads[a].der)])
    /\ UNCHANGED <<keyStore, pemStatus, pemError, clearPc>>
    /\ UNCHANGED <<matcherVars, sizingVars, clientVars, scannerVars, screenVars>>

\* crypto.subtle.importKey rejected the bytes (DataError); caught and shown
ImportRejects(a) ==
    /\ uploads[a].pc = "importing"
    /\ pemStatus' = "error"
    /\ pemError' = ErrorMessage("DataError", <<>>)
    /\ SetUpload(a, [uploads[a] EXCEPT !.pc = "failed",
                                       !.error = ErrorMessage("DataError", <<>>)])
    /\ UNCHANGED <<keyStore, clearPc>>
    /\ UNCHANGED <<matcherVars, sizingVars, clientVars, scannerVars, screenVars>>

\* storeCryptoKey resolved: the key is in IndexedDB and the status is "stored"
StoreResolves(a) ==
    /\ uploads[a].pc = "storing"
    /\ keyStore' = uploads[a].key
    /\ pemStatus' = "stored"
    /\ SetUpload(a, [uploads[a] EXCEPT !.pc = "stored", !.wroteStore = TRUE])
    /\ UNCHANGED <<pemError, clearPc>>
    /\ UNCHANGED <<matcherVars, sizingVars, clientVars, scannerVars, screenVars>>

\* handleClearPem up to its await (the Remove button is rendered only when the
\* status is "stored")
ClearPemStart ==
    /\ pemStatus = "stored"
    /\ clearPc = "idle"
    /\ keyStore' = NoKey
    /\ clearPc' = "deleting"
    /\ UNCHANGED <<pemStatus, pemError, uploads>>
    /\ UNCHANGED <<matcherVars, sizingVars, clientVars, scannerVars, screenVars>>

\* clearCryptoKey resolved
ClearPemDone ==
    /\ clearPc = "deleting"
    /\ pemStatus' = "none"
    /\ pemError' = NoError
    /\ clearPc' = "idle"
    /\ UNCHANGED <<keyStore, uploads>>
    /\ UNCHANGED <<matcherVars, sizingVars, clientVars, scannerVars, screenVars>>

NextKeys ==
    \/ \E f \in DOMAIN PemFiles : StartUpload(f)
    \/ \E a \in DOMAIN uploads : ParseFails(a)
    \/ \E a \in DOMAIN uploads : ParseOkCallImport(a)
    \/ \E a \in DOMAIN uploads : ImportResolves(a)
    \/ \E a \in DOMAIN uploads : ImportRejects(a)
    \/ \E a \in DOMAIN uploads : StoreResolves(a)
    \/ ClearPemStart
    \/ ClearPemDone

SpecKeys == InitKeys /\ [][NextKeys]_vars

\* ------------------------------------------------------------------------
\* kalshi-api.ts and kalshi-crypto.ts: the signed exchange client

KALSHI_BASE ==
    <<"h","t","t","p","s",":","/","/","a","p","i",".","e","l","e","c","t",
      "i","o","n","s",".","k","a","l","s","h","i",".","c","o","m">>

\* Number.prototype.toString of a non-negative integer
RECURSIVE NumberToString(_)
NumberToString(n) ==
    LET DIGITS == <<"0","1","2","3","4","5","6","7","8","9">>
    IN  IF n < 10 THEN <<DIGITS[n + 1]>>
        ELSE NumberToString(n \div 10) \o <<DIGITS[(n % 10) + 1]>>

\* an optional string argument that was passed
StringValue(s) == [tag |-> "string", s |-> s]

\* an optional string argument that was left out
NoString == [tag |-> "undefined", s |-> <<>>]

\* !keyId: null and the empty string are falsy
Falsy(x) == x.tag # "string" \/ x.s = <<>>

\* no request body
NoBody == [tag |-> "undefined", fields |-> <<>>]

\* a slip that signs the method before the timestamp
SignedMessage_MethodFirst(timestampMs, method, path) ==
    method \o timestampMs \o path

\* signKalshiRequest: const message = `${timestampMs}${method}${path}`
SignedMessage(timestampMs, method, path) == timestampMs \o method \o path

\* what a signature lets its reader learn about the key: the public half
PublicHalf(key) == [algorithm |-> key.algorithm, modulusOf |-> Len(key.material)]

\* crypto.subtle.sign({name: "RSA-PSS", saltLength: 32}, key, encoded): the
\* signature depends on the key, the message and a fresh salt
RsaPssSign(key, message, salt) ==
    [ algorithm |-> "RSA-PSS", saltLength |-> 32, signer |-> PublicHalf(key),
      message |-> message, salt |-> salt ]

\* btoa over the signature bytes
Btoa(bytes) == [encoding |-> "base64", of |-> bytes]

\* the price field a placeOrder body gets when the sides are mixed up
PriceField_Swapped(side) ==
    IF side = "yes" THEN "no_price_dollars" ELSE "yes_price_dollars"

\* side === "yes" ? "yes_price_dollars" : "no_price_dollars"
PriceField(side) ==
    IF side = "yes" THEN "yes_price_dollars" ELSE "no_price_dollars"

\* the body placeOrder passes to kalshiRequest
OrderBody(ticker, side, count, price) ==
    [ tag |-> "object",
      fields |-> [ ticker |-> ticker, side |-> side, action |-> "buy",
                   count |-> count, type |-> "limit" ]
                 @@ (PriceField(side) :> price) ]

\* the four operations: method, path, query and body of each
OpRequest(op, args) ==
    LET METHOD_GET == <<"G","E","T">>
        METHOD_POST == <<"P","O","S","T">>
        QUERY_POSITIONS == <<"l","i","m","i","t","=","2","0","0">>
        API == <<"/","t","r","a","d","e","-","a","p","i","/","v","2">>
        PATH_BALANCE == API \o <<"/","p","o","r","t","f","o","l","i","o","/",
                                 "b","a","l","a","n","c","e">>
        PATH_POSITIONS == API \o <<"/","p","o","r","t","f","o","l","i","o","/",
                                   "p","o","s","i","t","i","o","n","s">>
        PATH_MARKETS == API \o <<"/","m","a","r","k","e","t","s">>
        PATH_ORDERS == API \o <<"/","p","o","r","t","f","o","l","i","o","/",
                                "o","r","d","e","r","s">>
        QUERY_MARKETS ==
            <<"s","e","r","i","e","s","_","t","i","c","k","e","r","=","K","X","N",
              "B","A","G","A","M","E","&","s","t","a","t","u","s","=","o","p","e",
              "n","&","l","i","m","i","t","=","2","0","0">>
    IN  CASE op = "fetchBalance" ->
                [ method |-> METHOD_GET, path |-> PATH_BALANCE,
                  query |-> NoString, body |-> NoBody ]
          [] op = "fetchPositions" ->
                [ method |-> METHOD_GET, path |-> PATH_POSITIONS,
                  query |-> StringValue(QUERY_POSITIONS), body |-> NoBody ]
          [] op = "fetchNbaMarkets" ->
                [ method |-> METHOD_GET, path |-> PATH_MARKETS,
                  query |-> StringValue(QUERY_MARKETS), body |-> NoBody ]
          [] op = "placeOrder" ->
                [ method |-> METHOD_POST, path |-> PATH_ORDERS, query |-> NoString,
                  body |-> OrderBody(args.ticker, args.side, args.count,
                                     args.priceDollars) ]

\* the JSON body kalshiRequest POSTs to /api/kalshi/proxy; query || undefined
\* drops the empty string as well
ProxyRequestBody(req, keyId, timestamp, signature) ==
    [ method |-> req.method, path |-> req.path, query |-> IF Falsy(req.query) THEN NoString ELSE req.query,
      body |-> req.body, kalshiKeyId |-> keyId, timestamp |-> timestamp,
      signature |-> signature ]

\* ------------------------------------------------------------------------
\* kalshi-api.ts: reading the exchange's answers

\* the number parseFloat returns for a string that starts with no number
NaN == [tag |-> "NaN", n |-> 0]

\* parseFloat(text): leading white space, an optional sign, digits, an optional
\* fraction; whatever follows is ignored, and no digit at all gives NaN.  The
\* result is in hundredths: the fraction is read to its second digit.
ParseFloat(text) ==
    LET s        == TrimStart(text)
        DIGITS == <<"0","1","2","3","4","5","6","7","8","9">>
        IsDigit(c) == \E d \in DOMAIN DIGITS : DIGITS[d] = c
        DigitValue(c) == (CHOOSE d \in DOMAIN DIGITS : DIGITS[d] = c) - 1
        \* the number of digits from position i on, up to the first non-digit
        DigitRun(i) ==
            Cardinality({ k \in i..Len(s) : \A j \in i..k : IsDigit(s[j]) })
        \* the integer written by the n digits that start at position i
        RECURSIVE DigitsValue(_, _)
        DigitsValue(i, n) ==
            IF n = 0 THEN 0
            ELSE 10 * DigitsValue(i, n - 1) + DigitValue(s[i + n - 1])
        signed   == s # <<>> /\ s[1] \in {"-", "+"}
        start    == IF signed THEN 2 ELSE 1
        intLen   == DigitRun(start)
        dot      == start + intLen
        hasDot   == dot <= Len(s) /\ s[dot] = "."
        fracLen  == IF hasDot THEN DigitRun(dot + 1) ELSE 0
        whole    == DigitsValue(start, intLen)
        tenths   == IF fracLen >= 1 THEN DigitValue(s[dot + 1]) ELSE 0
        hundr    == IF fracLen >= 2 THEN DigitValue(s[dot + 2]) ELSE 0
        value    == whole * ONE + 10 * tenths + hundr
    IN  IF intLen = 0 /\ fracLen = 0 THEN NaN
        ELSE IF signed /\ s[1] = "-" THEN Num(0 - value)
        ELSE Num(value)

\* a slip that reads the integer field first
DollarsOrCents_CentsFirst(dollarsField, centsField) ==
    IF centsField.tag = "number" THEN Num((centsField.n * ONE) \div 100)
    ELSE IF ~Falsy(dollarsField) THEN ParseFloat(dollarsField.s)
    ELSE Num(0)

\* x_dollars ? parseFloat(x_dollars) : (x ?? 0) / 100
DollarsOrCents(dollarsField, centsField) ==
    IF ~Falsy(dollarsField) THEN ParseFloat(dollarsField.s)
    ELSE Num((Coalesce(centsField, 0) * ONE) \div 100)

\* x_dollars ? parseFloat(x_dollars) : undefined (the integer field of a
\* market is not read)
DollarsOrUndefined(dollarsField) ==
    IF ~Falsy(dollarsField) THEN ParseFloat(dollarsField.s) ELSE Undefined

\* fetchBalance: the object returned for the parsed answer
BalanceResult(data) ==
    [ balance |-> DollarsOrCents(data.balance_dollars, data.balance),
      portfolioValue |-> DollarsOrCents(data.portfolio_value_dollars,
                                        data.portfolio_value) ]

\* fetchPositions: [] without market_positions, else one item per position
PositionsResult(data) ==
    LET PositionItem(p) ==
            [ ticker |-> p.ticker,
              exposure |-> DollarsOrCents(p.market_exposure_dollars,
                                          p.market_exposure),
              totalTraded |-> DollarsOrCents(p.total_traded_dollars,
                                             p.total_traded),
              restingOrders |-> Coalesce(p.resting_orders_count, 0) ]
    IN  IF ~data.has_market_positions THEN <<>>
        ELSE [ i \in DOMAIN data.market_positions |->
                    PositionItem(data.market_positions[i]) ]

\* fetchNbaMarkets: [] without markets, else one KalshiMarket per market
MarketsResult(data) ==
    LET MarketItem(m) ==
            [ ticker |-> m.ticker, title |-> m.title,
              eventTicker |-> m.event_ticker,
              yesAsk |-> DollarsOrUndefined(m.yes_ask_dollars),
              noAsk |-> DollarsOrUndefined(m.no_ask_dollars) ]
    IN  IF ~data.has_markets THEN <<>>
        ELSE [ i \in DOMAIN data.markets |-> MarketItem(data.markets[i]) ]

\* placeOrder: the OrderResult built from data.order
OrderResult(data) ==
    [ orderId |-> data.order.order_id, ticker |-> data.order.ticker,
      status |-> data.order.status, side |-> data.order.side,
      action |-> data.order.action,
      fillCount |-> OrNull(data.order.fill_count),
      remainingCount |-> OrNull(data.order.remaining_count) ]

\* ------------------------------------------------------------------------
\* The proxy route (POST /api/kalshi/proxy) and the exchange behind it

\* resp.ok: a status in the range 200-299
ResponseOkStatus(status) == 200 <= status /\ status <= 299

\* what the proxy's checks answer for a POST, 0 when they all pass: 401
\* without a user, 403 without an active subscription, 400 for a body that
\* request.json() cannot parse, 400 for a path that is missing, empty or
\* outside /trade-api/v2.  A body that parses to null makes the destructuring
\* at lines 283-284 throw, which no catch encloses: the route answers 500.
ProxyVerdict(sess, post) ==
    LET prefix == <<"/","t","r","a","d","e","-","a","p","i","/","v","2">>
    IN  IF ~sess.user THEN 401
        ELSE IF ~sess.active THEN 403
        ELSE IF post.wire = "not-json" THEN 400
        ELSE IF post.wire = "null" THEN 500
        ELSE IF post.json.path = <<>> \/ ~MatchesAt(post.json.path, prefix, 1)
            THEN 400
        ELSE 0

\* the request the proxy sends to the exchange: the URL is
\* query ? `${KALSHI_BASE}${path}?${query}` : `${KALSHI_BASE}${path}`, the
\* three signed headers are copied from the body, and a body is attached to
\* anything but a GET
UpstreamRequest(body) ==
    [ url |-> IF ~Falsy(body.query)
                  THEN KALSHI_BASE \o body.path \o <<"?">> \o body.query.s
                  ELSE KALSHI_BASE \o body.path,
      method |-> body.method,
      accessKey |-> body.kalshiKeyId,
      accessTimestamp |-> body.timestamp,
      accessSignature |-> body.signature,
      body |-> IF body.body.tag = "object" /\ body.method # <<"G","E","T">>
                   THEN body.body ELSE NoBody ]

\* a response body is JSON text with the value it parses to, or text that
\* resp.json() cannot parse, such as an HTML error page
NonJsonBody == [kind |-> "text", data |-> <<>>]

\* the body of an answer the proxy writes itself: {error: ...}
ProxyErrorBody == [kind |-> "json", data |-> [error |-> "proxy"]]

\* ------------------------------------------------------------------------
\* Answers the exchange may give, and arguments the callers may pass

\* the JSON values an operation may be answered with.  GET /portfolio/balance:
\* both fields, the integer alone, a decimal string that is zero, an empty
\* decimal string.  GET /portfolio/positions: no list, an empty list, positions
\* with either field.  GET /markets: prices as decimal strings, as integer cents
\* only, and as both.  POST /portfolio/orders: the order created, with and
\* without its fill counts, and an answer without an order.
AnswersTo(op) ==
    LET BOS == EVT_LALBOS \o SUFFIX_BOS
        PositionEntry(exposureDollars, exposure, tradedDollars, traded, resting) ==
            [ ticker |-> BOS,
              market_exposure_dollars |-> exposureDollars,
              market_exposure |-> exposure,
              total_traded_dollars |-> tradedDollars, total_traded |-> traded,
              resting_orders_count |-> resting ]
        MarketEntry(suffix, yesAskDollars, yesAsk, noAskDollars, noAsk) ==
            [ ticker |-> EVT_LALBOS \o suffix, title |-> "winner",
              event_ticker |-> EVT_LALBOS,
              yes_ask_dollars |-> yesAskDollars, yes_ask |-> yesAsk,
              no_ask_dollars |-> noAskDollars, no_ask |-> noAsk ]
        OrderEntry(id, ticker, status, side, action, fill, remaining) ==
            [ order_id |-> id, ticker |-> ticker, status |-> status,
              side |-> side, action |-> action, fill_count |-> fill,
              remaining_count |-> remaining ]
    IN  CASE op = "fetchBalance" ->
            { [ balance_dollars |-> StringValue(<<"1","2",".","3","4">>),
                balance |-> Num(999),
                portfolio_value_dollars |-> StringValue(<<"7">>),
                portfolio_value |-> Undefined ],
              [ balance_dollars |-> NoString, balance |-> Num(1234),
                portfolio_value_dollars |-> NoString,
                portfolio_value |-> Undefined ],
              [ balance_dollars |-> StringValue(<<"0",".","0","0">>),
                balance |-> Num(700),
                portfolio_value_dollars |-> StringValue(<<" ","2",".","5","0","0","0">>),
                portfolio_value |-> Num(100) ],
              [ balance_dollars |-> StringValue(<<>>), balance |-> Num(500),
                portfolio_value_dollars |-> NoString,
                portfolio_value |-> Num(250) ] }
          [] op = "fetchPositions" ->
            { [ has_market_positions |-> FALSE, market_positions |-> <<>> ],
              [ has_market_positions |-> TRUE, market_positions |-> <<>> ],
              [ has_market_positions |-> TRUE, market_positions |->
                  << PositionEntry(StringValue(<<"-","4",".","1","0">>), Num(5),
                                   NoString, Num(820), Num(2)),
                     PositionEntry(NoString, Undefined, StringValue(<<>>),
                                   Num(60), Undefined) >> ] }
          [] op = "fetchNbaMarkets" ->
            { [ has_markets |-> FALSE, markets |-> <<>> ],
              [ has_markets |-> TRUE, markets |->
                  << MarketEntry(SUFFIX_BOS,
                                 StringValue(<<"0",".","6","0","0","0">>), Num(61),
                                 StringValue(<<"0",".","4","2">>), Undefined) >> ],
              [ has_markets |-> TRUE, markets |->
                  << MarketEntry(SUFFIX_BOS, NoString, Num(60), NoString, Num(42)),
                     MarketEntry(SUFFIX_LAL, StringValue(<<"0",".","4","1">>),
                                 Undefined, NoString, Undefined) >> ] }
          [] op = "placeOrder" ->
            { [ has_order |-> TRUE,
                order |-> OrderEntry(<<"o","r","d","-","1">>, BOS, "resting", "yes",
                                     "buy", Num(0), Num(41)) ],
              [ has_order |-> TRUE,
                order |-> OrderEntry(<<"o","r","d","-","1">>, BOS, "executed",
                                     "yes", "buy", Undefined, Undefined) ],
              [ has_order |-> FALSE,
                order |-> OrderEntry(<<>>, <<>>, "", "", "", Undefined,
                                     Undefined) ] }

\* arguments the callers pass: price.toFixed(2) and a count to placeOrder,
\* none to the other operations
ArgsOf(op) ==
    IF op = "placeOrder"
        THEN { [ ticker |-> EVT_LALBOS \o SUFFIX_BOS, side |-> "yes", count |-> 41,
                 priceDollars |-> <<"0",".","6","0">> ],
               [ ticker |-> EVT_LALBOS \o SUFFIX_LAL, side |-> "no", count |-> 1,
                 priceDollars |-> <<"0",".","4","1">> ] }
        ELSE { [ticker |-> <<>>, side |-> "", count |-> 0, priceDollars |-> <<>>] }

\* bound on the number of exchange calls in one run
MaxCalls == 1

\* ------------------------------------------------------------------------
\* The exchange client as a state machine.  Each await of kalshiRequest is a
\* point where other calls, the clock and the Key ID field may move.

\* an Error thrown by a call: its kind, and the status and body it carries
ClientError(kind, status, body) == [kind |-> kind, status |-> status, body |-> body]

\* throw new Error("Kalshi API keys not configured. ...")
MissingCredentialsError == ClientError("keys-not-configured", 0, NonJsonBody)

\* an error that drops the status
KalshiApiError_NoStatus(status, body) == ClientError("kalshi-api-error", 0, body)

\* throw new Error(`Kalshi API error (${resp.status}): ${errText}`)
KalshiApiError(status, body) == ClientError("kalshi-api-error", status, body)

\* a guard that passes when either credential is there
CredentialsMissing_BothNeeded(cryptoKey, keyId) ==
    cryptoKey = NoKey /\ Falsy(keyId)

\* !cryptoKey || !keyId
CredentialsMissing(cryptoKey, keyId) == cryptoKey = NoKey \/ Falsy(keyId)

SetCall(a, rec) == calls' = [calls EXCEPT ![a] = rec]

\* handleKeyIdChange(value): the trimmed value is stored, an empty one clears
HandleKeyIdChange(value) ==
    /\ keyIdStore' = IF Trim(value) # <<>> THEN StringValue(Trim(value))
                     ELSE NullKeyId
    /\ UNCHANGED <<session, calls, toProxy, upstream, clock>>
    /\ UNCHANGED <<matcherVars, sizingVars, keyVars, scannerVars, screenVars>>

\* fetchBalance(), fetchPositions(), fetchNbaMarkets() or placeOrder(...) is
\* called and kalshiRequest reaches its first await
StartCall(op) ==
    /\ Len(calls) < MaxCalls
    /\ \E args \in ArgsOf(op) :
        calls' = Append(calls,
            [ op |-> op, args |-> args, req |-> OpRequest(op, args),
              pc |-> "loading", cryptoKey |-> NoKey, keyId |-> NullKeyId,
              timestamp |-> <<>>, message |-> <<>>, signature |-> Btoa(<<>>),
              fetches |-> 0, response |-> [status |-> 0, body |-> NonJsonBody],
              error |-> ClientError("none", 0, NonJsonBody), result |-> <<>> ])
    /\ UNCHANGED <<keyIdStore, session, toProxy, upstream, clock>>
    /\ UNCHANGED <<matcherVars, sizingVars, keyVars, scannerVars, screenVars>>

\* the key and the key id were read and one is missing: the call throws
ThrowNotConfigured(a) ==
    /\ calls[a].pc = "loading"
    /\ CredentialsMissing(keyStore, keyIdStore)
    /\ SetCall(a, [calls[a] EXCEPT !.pc = "failed",
                                   !.cryptoKey = keyStore, !.keyId = keyIdStore,
                                   !.error = MissingCredentialsError])
    /\ UNCHANGED <<keyIdStore, session, toProxy, upstream, clock>>
    /\ UNCHANGED <<matcherVars, sizingVars, keyVars, scannerVars, screenVars>>

\* both are there: Date.now() is read, giving the millisecond of the last
\* reading or a later one, and signKalshiRequest is called
CallSign(a) ==
    /\ calls[a].pc = "loading"
    /\ ~CredentialsMissing(keyStore, keyIdStore)
    /\ \E now \in {clock, clock + 1} :
        LET timestamp == NumberToString(now)
        IN  /\ clock' = now
            /\ SetCall(a, [calls[a] EXCEPT
                    !.pc = "signing", !.cryptoKey = keyStore, !.keyId = keyIdStore,
                    !.timestamp = timestamp,
                    !.message = SignedMessage(timestamp, calls[a].req.method,
                                              calls[a].req.path)])
    /\ UNCHANGED <<keyIdStore, session, toProxy, upstream>>
    /\ UNCHANGED <<matcherVars, sizingVars, keyVars, scannerVars, screenVars>>

\* crypto.subtle.sign, which takes a private key imported for signing,
\* resolved with a salt no earlier signature had; the signed request is
\* POSTed to the proxy
SignedAndSent(a) ==
    /\ calls[a].pc = "signing"
    /\ calls[a].cryptoKey.type = "private"
    /\ "sign" \in calls[a].cryptoKey.usages
    /\ LET salt == Len(toProxy) + 1
           signature == Btoa(RsaPssSign(calls[a].cryptoKey, calls[a].message, salt))
       IN  /\ SetCall(a, [calls[a] EXCEPT !.pc = "fetching",
                                          !.signature = signature,
                                          !.fetches = calls[a].fetches + 1])
           /\ toProxy' = Append(toProxy,
                   [ call |-> a, state |-> "sent", wire |-> "object",
                     json |-> ProxyRequestBody(calls[a].req, calls[a].keyId,
                                               calls[a].timestamp, signature) ])
    /\ UNCHANGED <<keyIdStore, session, upstream, clock>>
    /\ UNCHANGED <<matcherVars, sizingVars, keyVars, scannerVars, screenVars>>

\* lines 47-52 of kalshiRequest and the operation's own parsing, for an
\* answer with the given status and body: the call throws or returns
Settled(call, status, body) ==
    LET answered == [call EXCEPT !.response = [status |-> status, body |-> body]]
        \* reading data.order.order_id of an answer without an order throws
        ResultThrows(op, data) == op = "placeOrder" /\ ~data.has_order
        OpResult(op, data) ==
            CASE op = "fetchBalance" -> BalanceResult(data)
              [] op = "fetchPositions" -> PositionsResult(data)
              [] op = "fetchNbaMarkets" -> MarketsResult(data)
              [] op = "placeOrder" -> OrderResult(data)
    IN  IF ~ResponseOkStatus(status)
          THEN [answered EXCEPT !.pc = "failed",
                                !.error = KalshiApiError(status, body)]
        ELSE IF body.kind # "json"
          THEN [answered EXCEPT !.pc = "failed",
                    !.error = ClientError("json-syntax-error", 0, NonJsonBody)]
        ELSE IF ResultThrows(call.op, body.data)
          THEN [answered EXCEPT !.pc = "failed",
                    !.error = ClientError("type-error", 0, NonJsonBody)]
        ELSE [answered EXCEPT !.pc = "done",
                              !.result = <<OpResult(call.op, body.data)>>]

\* the answer to request r reaches the call that awaits it
Deliver(r, status, body) ==
    /\ toProxy' = [toProxy EXCEPT ![r].state = "answered"]
    /\ SetCall(toProxy[r].call, Settled(calls[toProxy[r].call], status, body))

\* the POST never reaches the proxy: fetch rejects and the call throws
FetchRejects(r) ==
    /\ toProxy[r].state = "sent"
    /\ toProxy' = [toProxy EXCEPT ![r].state = "lost"]
    /\ SetCall(toProxy[r].call,
               [calls[toProxy[r].call] EXCEPT
                    !.pc = "failed",
                    !.error = ClientError("fetch-failed", 0, NonJsonBody)])
    /\ UNCHANGED <<keyIdStore, session, upstream, clock>>
    /\ UNCHANGED <<matcherVars, sizingVars, keyVars, scannerVars, screenVars>>

\* the proxy turns the request down: 401, 403 or 400
ProxyRejects(r) ==
    /\ toProxy[r].state = "sent"
    /\ ProxyVerdict(session, toProxy[r]) # 0
    /\ Deliver(r, ProxyVerdict(session, toProxy[r]), ProxyErrorBody)
    /\ UNCHANGED <<keyIdStore, session, upstream, clock>>
    /\ UNCHANGED <<matcherVars, sizingVars, keyVars, scannerVars, screenVars>>

\* the proxy sends the request on to the exchange
ProxyForwards(r) ==
    /\ toProxy[r].state = "sent"
    /\ ProxyVerdict(session, toProxy[r]) = 0
    /\ toProxy' = [toProxy EXCEPT ![r].state = "forwarded"]
    /\ upstream' = Append(upstream,
            [call |-> toProxy[r].call, request |-> UpstreamRequest(toProxy[r].json)])
    /\ UNCHANGED <<keyIdStore, session, calls, clock>>
    /\ UNCHANGED <<matcherVars, sizingVars, keyVars, scannerVars, screenVars>>

\* the exchange answers 200 or 299 with the JSON the operation asked for, 300
\* with a JSON error, or with something that is not JSON; the proxy relays
\* status and body
ExchangeAnswers(r) ==
    /\ toProxy[r].state = "forwarded"
    /\ \/ \E status \in {200, 299} :
          \E data \in AnswersTo(calls[toProxy[r].call].op) :
                Deliver(r, status, [kind |-> "json", data |-> data])
       \/ Deliver(r, 300, [kind |-> "json", data |-> [error |-> "exchange"]])
       \/ \E status \in {200, 300} : Deliver(r, status, NonJsonBody)
    /\ UNCHANGED <<keyIdStore, session, upstream, clock>>
    /\ UNCHANGED <<matcherVars, sizingVars, keyVars, scannerVars, screenVars>>

\* the proxy's fetch throws: it answers 502
ExchangeUnreachable(r) ==
    /\ toProxy[r].state = "forwarded"
    /\ Deliver(r, 502, ProxyErrorBody)
    /\ UNCHANGED <<keyIdStore, session, upstream, clock>>
    /\ UNCHANGED <<matcherVars, sizingVars, keyVars, scannerVars, screenVars>>

\* the settings hold the key importPemKey made of a PKCS#1 file in an earlier
\* visit, or none, and no key id yet; the caller of the proxy
\* is anonymous, signed in, or signed in with a subscription
InitClient ==
    /\ MatcherParked
    /\ SizingParked
    /\ ScannerParked
    /\ ScreensParked
    /\ keyStore \in {NoKey, CryptoKey(Pkcs8Der(parsePem(PEM_PKCS1)))}
    /\ pemStatus = (IF keyStore = NoKey THEN "none" ELSE "stored")
    /\ pemError = NoError
    /\ uploads = <<>>
    /\ clearPc = "idle"
    /\ keyIdStore = NullKeyId
    /\ session \in { [user |-> FALSE, active |-> FALSE],
                     [user |-> TRUE, active |-> FALSE],
                     [user |-> TRUE, active |-> TRUE] }
    /\ calls = <<>>
    /\ toProxy = <<>>
    /\ upstream = <<>>
    /\ clock = 0

NextClient ==
    \/ \E value \in { <<" ">>, <<" ","k","e","y","-","1"," ">> } :
            HandleKeyIdChange(value)
    \/ \E op \in {"fetchBalance", "fetchPositions", "fetchNbaMarkets",
                  "placeOrder"} : StartCall(op)
    \/ \E a \in DOMAIN calls : ThrowNotConfigured(a)
    \/ \E a \in DOMAIN calls : CallSign(a)
    \/ \E a \in DOMAIN calls : SignedAndSent(a)
    \/ \E r \in DOMAIN toProxy : FetchRejects(r)
    \/ \E r \in DOMAIN toProxy : ProxyRejects(r)
    \/ \E r \in DOMAIN toProxy : ProxyForwards(r)
    \/ \E r \in DOMAIN toProxy : ExchangeAnswers(r)
    \/ \E r \in DOMAIN toProxy : ExchangeUnreachable(r)

SpecClient == InitClient /\ [][NextClient]_vars

\* ------------------------------------------------------------------------
\* The scanner: the polling loop that places automatic orders.  One session
\* runs from a start to the stop that disables the loop.

\* bound on the number of poll cycles of one scanner session
MaxCycles == 2

\* the settings a session may be started with: edge thresholds of 10, 12 and
\* 13 percent, either sizing mode
ScannerConfigs ==
    { [edgeThresholdPercent |-> 10 * ONE, sizingMode |-> "contracts",
       amount |-> 10 * ONE],
      [edgeThresholdPercent |-> 12 * ONE, sizingMode |-> "dollars",
       amount |-> 25 * ONE],
      [edgeThresholdPercent |-> 13 * ONE, sizingMode |-> "contracts",
       amount |-> 10 * ONE] }

\* what one poll may fetch: the Celtics at 0.72 against an ask of 0.60 (edge
\* 12), the same against an ask of 0.62 (edge 10), and two opportunities at
\* once (edges 31 and 12)
PollInputs ==
    LET celtics == Pred(1, "Boston Celtics", "Los Angeles Lakers", Num(1), Num(72))
        lakers  == Pred(2, "Boston Celtics", "Los Angeles Lakers", Num(0), Num(28))
        bosAt(ask) == Market(EVT_LALBOS, SUFFIX_BOS, "Celtics win", Num(ask),
                             Num(ONE - ask + 2))
        lal     == Market(EVT_LALBOS, SUFFIX_LAL, "Lakers win", Num(41), Num(61))
    IN  { [predictions |-> <<celtics>>, instruments |-> <<bosAt(60)>>],
          [predictions |-> <<celtics>>, instruments |-> <<bosAt(62)>>],
          [predictions |-> <<celtics, lakers>>,
           instruments |-> <<bosAt(60), lal>>] }

\* a threshold that an equal edge passes
ExceedsThreshold_Inclusive(edgePercent, threshold) == edgePercent >= threshold

\* edgePercent strictly exceeds edgeThresholdPercent
ExceedsThreshold(edgePercent, threshold) == edgePercent > threshold

\* an opportunity that is placed whatever the dedup set holds
Qualifies_IgnoringDedup(opp, config, deduped) ==
    ExceedsThreshold(opp.edge, config.edgeThresholdPercent)

\* an opportunity is placed when its edge exceeds the threshold and its
\* ticker is not already in dedupedTickers
Qualifies(opp, config, deduped) ==
    /\ ExceedsThreshold(opp.edge, config.edgeThresholdPercent)
    /\ opp.marketTicker \notin deduped

\* a "scan", "placed" or "error" event of the given cycle
ScanEvent(kind, cycle, ticker, counts) ==
    [kind |-> kind, cycle |-> cycle, ticker |-> ticker, counts |-> counts]

\* the scanner is started with the user's settings: a missing key is fatal to
\* starting; the runtime state of the session starts empty
ScannerStart(config) ==
    /\ scanPc = "Disabled"
    /\ keyStore # NoKey
    /\ scanPc' = "Idle"
    /\ scanConfig' = config
    /\ stopRequested' = FALSE
    /\ dedupedTickers' = {}
    /\ cycleOpps' = <<>>
    /\ cycleIdx' = 0
    /\ cycleNo' = 0
    /\ placedOrders' = <<>>
    /\ scanEvents' = <<>>
    /\ UNCHANGED <<matcherVars, sizingVars, keyVars, clientVars, screenVars>>

\* the user asks the scanner to stop
RequestStop ==
    /\ scanPc # "Disabled"
    /\ ~stopRequested
    /\ stopRequested' = TRUE
    /\ UNCHANGED <<scanPc, scanConfig, dedupedTickers, cycleOpps, cycleIdx,
                   cycleNo, placedOrders, scanEvents>>
    /\ UNCHANGED <<matcherVars, sizingVars, keyVars, clientVars, screenVars>>

\* a cycle start that does not read the stop flag
CycleStart_IgnoringStop ==
    /\ scanPc = "Idle"
    /\ cycleNo < MaxCycles
    /\ scanPc' = "Polling"
    /\ cycleNo' = cycleNo + 1
    /\ cycleOpps' = <<>>
    /\ cycleIdx' = 0
    /\ UNCHANGED <<scanConfig, stopRequested, dedupedTickers, placedOrders,
                   scanEvents>>
    /\ UNCHANGED <<matcherVars, sizingVars, keyVars, clientVars, screenVars>>

\* the interval wait is over: a stop request disables the loop, otherwise
\* the next cycle starts its fetches; the opportunities of the cycle before
\* are not kept
CycleStart ==
    /\ scanPc = "Idle"
    /\ IF stopRequested
         THEN /\ scanPc' = "Disabled"
              /\ UNCHANGED <<cycleNo, cycleOpps, cycleIdx>>
         ELSE /\ cycleNo < MaxCycles
              /\ scanPc' = "Polling"
              /\ cycleNo' = cycleNo + 1
              /\ cycleOpps' = <<>>
              /\ cycleIdx' = 0
    /\ UNCHANGED <<scanConfig, stopRequested, dedupedTickers, placedOrders,
                   scanEvents>>
    /\ UNCHANGED <<matcherVars, sizingVars, keyVars, clientVars, screenVars>>

\* predictions and instruments are fetched.  A failed fetch emits an "error"
\* event and ends the cycle; otherwise the matcher is called and a "scan"
\* event carries the counts
Poll(input) ==
    /\ scanPc = "Polling"
    /\ \/ /\ scanPc' = "Idle"
          /\ scanEvents' = Append(scanEvents,
                                  ScanEvent("error", cycleNo, <<>>, <<0, 0, 0>>))
          /\ UNCHANGED <<cycleOpps, cycleIdx>>
       \/ LET out == MatchTagged(input.predictions, input.instruments)
          IN  /\ cycleOpps' = [i \in 1..Len(out) |-> out[i].game]
              /\ cycleIdx' = 1
              /\ scanPc' = "Evaluating"
              /\ scanEvents' = Append(scanEvents,
                    ScanEvent("scan", cycleNo, <<>>,
                              <<Len(input.predictions), Len(input.instruments),
                                Len(out)>>))
    /\ UNCHANGED <<scanConfig, stopRequested, dedupedTickers, cycleNo,
                   placedOrders>>
    /\ UNCHANGED <<matcherVars, sizingVars, keyVars, clientVars, screenVars>>

\* the next opportunity of the cycle is looked at: an order is dispatched for
\* one that qualifies, any other is passed over; after the last one the cycle
\* is complete
Evaluate ==
    /\ scanPc = "Evaluating"
    /\ IF cycleIdx > Len(cycleOpps)
         THEN scanPc' = "Idle" /\ UNCHANGED cycleIdx
       ELSE IF Qualifies(cycleOpps[cycleIdx], scanConfig, dedupedTickers)
         THEN scanPc' = "Placing" /\ UNCHANGED cycleIdx
       ELSE scanPc' = "Evaluating" /\ cycleIdx' = cycleIdx + 1
    /\ UNCHANGED <<scanConfig, stopRequested, dedupedTickers, cycleOpps,
                   cycleNo, placedOrders, scanEvents>>
    /\ UNCHANGED <<matcherVars, sizingVars, keyVars, clientVars, screenVars>>

\* a failed placement that marks its ticker as placed all the same
PlaceReturns_DedupOnFailure(ok) ==
    /\ scanPc = "Placing"
    /\ LET opp == cycleOpps[cycleIdx]
       IN  /\ dedupedTickers' = dedupedTickers \cup {opp.marketTicker}
           /\ IF ok
                THEN /\ \E count \in computeContractCount(scanConfig.sizingMode,
                                    scanConfig.amount, opp.marketImpliedProb) :
                        placedOrders' = Append(placedOrders,
                            [ ticker |-> opp.marketTicker, side |-> opp.betSide,
                              count |-> count, price |-> opp.marketImpliedProb,
                              edge |-> opp.edge, cycle |-> cycleNo ])
                     /\ scanEvents' = Append(scanEvents,
                           ScanEvent("placed", cycleNo, opp.marketTicker, <<0, 0, 0>>))
                ELSE /\ scanEvents' = Append(scanEvents,
                           ScanEvent("error", cycleNo, opp.marketTicker, <<0, 0, 0>>))
                     /\ UNCHANGED placedOrders
    /\ scanPc' = "Evaluating"
    /\ cycleIdx' = cycleIdx + 1
    /\ UNCHANGED <<scanConfig, stopRequested, cycleOpps, cycleNo>>
    /\ UNCHANGED <<matcherVars, sizingVars, keyVars, clientVars, screenVars>>

\* placeOrder returns.  On success the ticker joins dedupedTickers and a
\* "placed" event is emitted; on failure an "error" event is emitted and the
\* ticker is not added.  The loop goes on with the next opportunity.
PlaceReturns(ok) ==
    /\ scanPc = "Placing"
    /\ LET opp == cycleOpps[cycleIdx]
       IN  IF ok
             THEN /\ \E count \in computeContractCount(scanConfig.sizingMode,
                                    scanConfig.amount, opp.marketImpliedProb) :
                        placedOrders' = Append(placedOrders,
                            [ ticker |-> opp.marketTicker, side |-> opp.betSide,
                              count |-> count, price |-> opp.marketImpliedProb,
                              edge |-> opp.edge, cycle |-> cycleNo ])
                  /\ dedupedTickers' = dedupedTickers \cup {opp.marketTicker}
                  /\ scanEvents' = Append(scanEvents,
                        ScanEvent("placed", cycleNo, opp.marketTicker, <<0, 0, 0>>))
             ELSE /\ scanEvents' = Append(scanEvents,
                        ScanEvent("error", cycleNo, opp.marketTicker, <<0, 0, 0>>))
                  /\ UNCHANGED <<placedOrders, dedupedTickers>>
    /\ scanPc' = "Evaluating"
    /\ cycleIdx' = cycleIdx + 1
    /\ UNCHANGED <<scanConfig, stopRequested, cycleOpps, cycleNo>>
    /\ UNCHANGED <<matcherVars, sizingVars, keyVars, clientVars, screenVars>>

\* the scanner is off; the settings hold an imported key or none
InitScanner ==
    /\ MatcherParked
    /\ SizingParked
    /\ ClientParked
    /\ ScannerParked
    /\ ScreensParked
    /\ keyStore \in {NoKey, CryptoKey(Pkcs8Der(parsePem(PEM_PKCS1)))}
    /\ pemStatus = (IF keyStore = NoKey THEN "none" ELSE "stored")
    /\ pemError = NoError
    /\ uploads = <<>>
    /\ clearPc = "idle"

NextScanner ==
    \/ \E config \in ScannerConfigs : ScannerStart(config)
    \/ RequestStop
    \/ CycleStart
    \/ \E input \in PollInputs : Poll(input)
    \/ Evaluate
    \/ \E ok \in BOOLEAN : PlaceReturns(ok)

SpecScanner == InitScanner /\ [][NextScanner]_vars

\* ------------------------------------------------------------------------
\* TerminalSettings.tsx: the trading settings form and its Save button

\* bound on the "Saved" timers pending at one time
MaxTimers == 2

\* what the value of a number input may be: the empty string while the field
\* is empty or holds no valid number, else the number as typed
NumberInputValues ==
    { <<>>, <<"0">>, <<"-","5">>, <<"0",".","5">>, <<"1">>, <<"1","2">>,
      <<"2","5">> }

\* Number(text) of a number input's value: 0 for the empty string
Number(text) == IF Trim(text) = <<>> THEN Num(0) ELSE ParseFloat(text)

\* onChange of the Edge Threshold input: setEdgeThreshold(Number(value))
SetEdgeThreshold(text) ==
    /\ tradingForm' = [tradingForm EXCEPT !.settings.edgeThreshold = Number(text)]
    /\ UNCHANGED <<settingsStore, envelope, row, orders, manual, refreshes>>
    /\ UNCHANGED <<matcherVars, sizingVars, keyVars, clientVars, scannerVars>>

\* onClick of By Contracts and By Dollars: setSizingMode(mode)
SetSizingMode(mode) ==
    /\ tradingForm' = [tradingForm EXCEPT !.settings.sizingMode = mode]
    /\ UNCHANGED <<settingsStore, envelope, row, orders, manual, refreshes>>
    /\ UNCHANGED <<matcherVars, sizingVars, keyVars, clientVars, scannerVars>>

\* onChange of the bet amount input: a value below 1 is not taken
SetBetAmount(text) ==
    /\ tradingForm' =
            IF Number(text).tag = "number" /\ Number(text).n >= ONE
                THEN [tradingForm EXCEPT !.settings.betAmount = Number(text)]
                ELSE tradingForm
    /\ UNCHANGED <<settingsStore, envelope, row, orders, manual, refreshes>>
    /\ UNCHANGED <<matcherVars, sizingVars, keyVars, clientVars, scannerVars>>

\* handleSave: saveTerminalSettings({edgeThreshold, sizingMode, betAmount}),
\* setSaved(true) and a timer that takes the mark back
handleSave ==
    /\ tradingForm.timers < MaxTimers
    /\ settingsStore' = [tag |-> "json", value |-> tradingForm.settings]
    /\ tradingForm' = [tradingForm EXCEPT !.saved = TRUE, !.timers = @ + 1]
    /\ UNCHANGED <<envelope, row, orders, manual, refreshes>>
    /\ UNCHANGED <<matcherVars, sizingVars, keyVars, clientVars, scannerVars>>

\* a timer of handleSave fires: setSaved(false)
SavedTimeout ==
    /\ tradingForm.timers > 0
    /\ tradingForm' = [tradingForm EXCEPT !.saved = FALSE, !.timers = @ - 1]
    /\ UNCHANGED <<settingsStore, envelope, row, orders, manual, refreshes>>
    /\ UNCHANGED <<matcherVars, sizingVars, keyVars, clientVars, scannerVars>>

\* the screen mounted for the first time: nothing saved, the form at the
\* defaults
InitSettings ==
    /\ MatcherParked
    /\ SizingParked
    /\ KeysParked
    /\ ClientParked
    /\ ScannerParked
    /\ ScreensParked

NextSettings ==
    \/ \E text \in NumberInputValues : SetEdgeThreshold(text)
    \/ \E mode \in SizingModes : SetSizingMode(mode)
    \/ \E text \in NumberInputValues : SetBetAmount(text)
    \/ handleSave
    \/ SavedTimeout

SpecSettings == InitSettings /\ [][NextSettings]_vars

\* ------------------------------------------------------------------------
\* importPemKey from the parsed DER on: the PKCS#8 envelope and the import

\* the lengths of the DER a PEM body may decode to: around each change of
\* form of the two length prefixes, a 2048-bit key, and around the longest
\* length that two length octets carry
KeyLengths ==
    (0..3) \cup (105..109) \cup (126..129) \cup (232..237) \cup (254..257)
        \cup {1190, 65513, 65514, 65535, 65536}

\* DER bytes of the given length, as atob and charCodeAt hand them over
DerBytes(n) == [i \in 1..n |-> (7 * i + 3) % 256]

\* importPemKey after parsePem returned: the DER is wrapped when the format
\* is "pkcs1" and handed to crypto.subtle.importKey("pkcs8", ...)
ImportParsed ==
    /\ envelope.pc = "parsed"
    /\ envelope' = [envelope EXCEPT !.pc = "imported",
                                    !.pkcs8Der = Pkcs8Der(envelope)]
    /\ UNCHANGED <<tradingForm, settingsStore, row, orders, manual, refreshes>>
    /\ UNCHANGED <<matcherVars, sizingVars, keyVars, clientVars, scannerVars>>

\* parsePem has returned the DER of a PEM body and the format of its header
InitEnvelope ==
    /\ MatcherParked
    /\ SizingParked
    /\ KeysParked
    /\ ClientParked
    /\ ScannerParked
    /\ tradingForm = [settings |-> defaults, saved |-> FALSE, timers |-> 0]
    /\ settingsStore = [tag |-> "null", value |-> defaults]
    /\ \E n \in KeyLengths : \E format \in {"pkcs1", "pkcs8"} :
            envelope = [pc |-> "parsed", format |-> format, der |-> DerBytes(n),
                        pkcs8Der |-> <<>>]
    /\ row = <<>>
    /\ orders = <<>>
    /\ manual = <<>>
    /\ refreshes = <<>>

NextEnvelope == ImportParsed

SpecEnvelope == InitEnvelope /\ [][NextEnvelope]_vars

\* ------------------------------------------------------------------------
\* The proxy route on its own: any caller may POST anything to it

\* bound on the number of POSTs the route receives
MaxPosts == 2

\* what a caller may POST: text that is not JSON, the JSON value null, and
\* objects whose path is missing or empty, lies under /trade-api/v2, or lies
\* elsewhere, with and without a query
ProxyPosts ==
    LET Body(path, query) ==
            [ method |-> <<"G","E","T">>, path |-> path, query |-> query,
              body |-> NoBody, kalshiKeyId |-> <<"k">>,
              timestamp |-> <<"1">>, signature |-> <<"s">> ]
        Paths == { <<>>,
                   <<"/","t","r","a","d","e","-","a","p","i","/","v","2">>,
                   <<"/","t","r","a","d","e","-","a","p","i","/","v","2","/","m","a","r","k","e","t","s">>,
                   <<"/","t","r","a","d","e","-","a","p","i","/","v","1","/","m","a","r","k","e","t","s">>,
                   <<"/","a","p","i","/","k","a","l","s","h","i">>,
                   <<"@","e","v","i","l",".","e","x","a","m","p","l","e","/","t","r","a","d","e","-","a","p","i","/","v","2">>,
                   <<"/","t","r","a","d","e","-","a","p","i","/","v","2","@","e","v","i","l",".","e","x","a","m","p","l","e">> }
    IN  { [wire |-> w, json |-> Body(<<>>, NoString)] : w \in {"not-json", "null"} }
        \cup { [wire |-> "object", json |-> Body(path, query)] :
                 path \in Paths, query \in {NoString, StringValue(<<"a","=","1">>)} }

\* POST, lines 251-322: the checks are made in order and the request is
\* either answered at once or sent on to the exchange
ProxyPost(post) ==
    /\ Len(toProxy) < MaxPosts
    /\ LET verdict == ProxyVerdict(session, post)
           r == Len(toProxy) + 1
       IN  /\ toProxy' = Append(toProxy,
                   [ call |-> 0, wire |-> post.wire, json |-> post.json,
                     state |-> IF verdict = 0 THEN "forwarded" ELSE "answered",
                     status |-> verdict ])
           /\ upstream' = IF verdict = 0
                  THEN Append(upstream,
                           [call |-> r, request |-> UpstreamRequest(post.json)])
                  ELSE upstream
    /\ UNCHANGED <<keyIdStore, session, calls, clock>>
    /\ UNCHANGED <<matcherVars, sizingVars, keyVars, scannerVars, screenVars>>

\* POST, lines 323-338: the exchange's status is relayed, and a fetch that
\* throws is answered 502
UpstreamReturns(r) ==
    /\ toProxy[r].state = "forwarded"
    /\ \E status \in {200, 300, 502} :
          toProxy' = [toProxy EXCEPT ![r].state = "answered",
                                     ![r].status = status]
    /\ UNCHANGED <<keyIdStore, session, calls, upstream, clock>>
    /\ UNCHANGED <<matcherVars, sizingVars, keyVars, scannerVars, screenVars>>

\* the caller of the proxy is anonymous, signed in, or signed in with a
\* subscription
InitProxy ==
    /\ MatcherParked
    /\ SizingParked
    /\ KeysParked
    /\ ScannerParked
    /\ ScreensParked
    /\ keyIdStore = NullKeyId
    /\ session \in { [user |-> FALSE, active |-> FALSE],
                     [user |-> TRUE, active |-> FALSE],
                     [user |-> TRUE, active |-> TRUE] }
    /\ calls = <<>>
    /\ toProxy = <<>>
    /\ upstream = <<>>
    /\ clock = 0

NextProxy ==
    \/ \E post \in ProxyPosts : ProxyPost(post)
    \/ \E r \in DOMAIN toProxy : UpstreamReturns(r)

SpecProxy == InitProxy /\ [][NextProxy]_vars

\* ------------------------------------------------------------------------
\* A row of the manual screen (TerminalGameRow) as a state machine.  The row
\* is an instance of the component: the screen unmounts its rows while a
\* refresh is loading and mounts new ones afterwards, with fresh state.

\* bounds on the placements started and on the times the row is mounted
MaxOrders == 2

MaxMounts == 2

\* Number.prototype.toFixed(2) of a number given in hundredths
ToFixed2(n) ==
    LET abs == IF n < 0 THEN 0 - n ELSE n
        DIGITS == <<"0","1","2","3","4","5","6","7","8","9">>
    IN  (IF n < 0 THEN <<"-">> ELSE <<>>)
        \o NumberToString(abs \div 100)
        \o <<".", DIGITS[((abs \div 10) % 10) + 1], DIGITS[(abs % 10) + 1]>>

\* the games a row may be given: what the matcher makes (the yes side at a
\* valid ask) and what the type MatchedGame also admits (the no side, at an
\* ask that is null, 0 or a price)
RowGames ==
    { [betSide |-> "yes", yesAsk |-> Num(20), noAsk |-> Num(41)] }
    \cup { [betSide |-> "no", yesAsk |-> Num(20), noAsk |-> no] :
              no \in {Null, Num(0), Num(41)} }

\* what may be typed over the saved amount: nothing, 0, a negative number,
\* a fraction below 1
RowAmountValues == { <<>>, <<"0">>, <<"-","5">>, <<"0",".","5">> }

\* const price = game.betSide === "yes" ? game.yesAsk : game.noAsk
RowPrice(game) == IF game.betSide = "yes" THEN game.yesAsk ELSE game.noAsk

\* the test `price ?` / `!price`: null and 0 are falsy
HasPrice(game) == RowPrice(game).tag = "number" /\ RowPrice(game).n # 0

\* const contractCount = price ? computeContractCount({..., sizingMode:
\* inputMode, betAmount: inputAmount}, price) : 0, as the set of values the
\* expression can take
RowContractCount(r) ==
    IF HasPrice(r.game)
        THEN computeContractCount(r.inputMode, r.inputAmount.n, RowPrice(r.game).n)
        ELSE {0}

\* the useState initial values of a row mounted with the given props
MountedRow(inst, game, sizing, amount) ==
    [ inst |-> inst, game |-> game, sizingMode |-> sizing, betAmount |-> amount,
      inputAmount |-> amount, inputMode |-> sizing, showBetForm |-> FALSE,
      placing |-> FALSE, result |-> "null" ]

\* a slip that leaves Confirm enabled while a placement runs
ConfirmDisabled_CountOnly(placing, count) == count = 0

\* disabled={placing || contractCount === 0}
ConfirmDisabled(placing, count) == placing \/ count = 0

\* onClick of Bet
OpenBetForm ==
    /\ ~row.showBetForm
    /\ row' = [row EXCEPT !.showBetForm = TRUE]
    /\ UNCHANGED <<tradingForm, settingsStore, envelope, orders, manual, refreshes>>
    /\ UNCHANGED <<matcherVars, sizingVars, keyVars, clientVars, scannerVars>>

\* onClick of the closing button
CloseBetForm ==
    /\ row.showBetForm
    /\ row' = [row EXCEPT !.showBetForm = FALSE]
    /\ UNCHANGED <<tradingForm, settingsStore, envelope, orders, manual, refreshes>>
    /\ UNCHANGED <<matcherVars, sizingVars, keyVars, clientVars, scannerVars>>

\* onClick of the contracts/dollars toggle
ToggleInputMode ==
    /\ row.showBetForm
    /\ row' = [row EXCEPT !.inputMode =
                   IF row.inputMode = "contracts" THEN "dollars" ELSE "contracts"]
    /\ UNCHANGED <<tradingForm, settingsStore, envelope, orders, manual, refreshes>>
    /\ UNCHANGED <<matcherVars, sizingVars, keyVars, clientVars, scannerVars>>

\* onChange of the amount input: setInputAmount(Number(value)), unguarded
SetInputAmount(text) ==
    /\ row.showBetForm
    /\ row' = [row EXCEPT !.inputAmount = Number(text)]
    /\ UNCHANGED <<tradingForm, settingsStore, envelope, orders, manual, refreshes>>
    /\ UNCHANGED <<matcherVars, sizingVars, keyVars, clientVars, scannerVars>>

\* onClick of Confirm, up to the await: handleBet runs with the count and
\* the price of the render the button belongs to
handleBet ==
    /\ row.showBetForm
    /\ Len(orders) < MaxOrders
    /\ \E count \in RowContractCount(row) :
          /\ ~ConfirmDisabled(row.placing, count)
          /\ IF ~HasPrice(row.game)
               THEN /\ row' = [row EXCEPT !.result = "No valid price",
                                          !.placing = FALSE]
                    /\ orders' = orders
               ELSE /\ row' = [row EXCEPT !.result = "null", !.placing = TRUE]
                    /\ orders' = Append(orders,
                           [ inst |-> row.inst, side |-> row.game.betSide,
                             count |-> count,
                             priceDollars |-> ToFixed2(RowPrice(row.game).n),
                             state |-> "in flight" ])
    /\ UNCHANGED <<tradingForm, settingsStore, envelope, manual, refreshes>>
    /\ UNCHANGED <<matcherVars, sizingVars, keyVars, clientVars, scannerVars>>

\* placeOrder settles and handleBet runs to its end: the result is shown and
\* placing is cleared, on either outcome.  The setters of a row that is no
\* longer mounted change nothing.
PlacementEnds(o, ok) ==
    /\ orders[o].state = "in flight"
    /\ orders' = [orders EXCEPT ![o].state = IF ok THEN "placed" ELSE "failed"]
    /\ row' = IF orders[o].inst # row.inst THEN row
              ELSE IF ok
                THEN [row EXCEPT !.result = "Order", !.showBetForm = FALSE,
                                 !.placing = FALSE]
                ELSE [row EXCEPT !.result = "Error", !.placing = FALSE]
    /\ UNCHANGED <<tradingForm, settingsStore, envelope, manual, refreshes>>
    /\ UNCHANGED <<matcherVars, sizingVars, keyVars, clientVars, scannerVars>>

\* the screen refreshes: the rows are replaced by the loading placeholder
\* and a new row is mounted for the game when the list is shown again
Remount ==
    /\ row.inst < MaxMounts
    /\ row' = MountedRow(row.inst + 1, row.game, row.sizingMode, row.betAmount)
    /\ UNCHANGED <<tradingForm, settingsStore, envelope, orders, manual, refreshes>>
    /\ UNCHANGED <<matcherVars, sizingVars, keyVars, clientVars, scannerVars>>

\* a row is mounted with a game and the saved sizing settings
InitRow ==
    /\ MatcherParked
    /\ SizingParked
    /\ KeysParked
    /\ ClientParked
    /\ ScannerParked
    /\ tradingForm = [settings |-> defaults, saved |-> FALSE, timers |-> 0]
    /\ settingsStore = [tag |-> "null", value |-> defaults]
    /\ envelope = [pc |-> "idle", format |-> "pkcs8", der |-> <<>>,
                   pkcs8Der |-> <<>>]
    /\ \E game \in RowGames, sizing \in {"contracts", "dollars"} :
          row = MountedRow(1, game, sizing, defaults.betAmount)
    /\ orders = <<>>
    /\ manual = <<>>
    /\ refreshes = <<>>

NextRow ==
    \/ OpenBetForm
    \/ CloseBetForm
    \/ ToggleInputMode
    \/ \E text \in RowAmountValues : SetInputAmount(text)
    \/ handleBet
    \/ \E o \in DOMAIN orders, ok \in BOOLEAN : PlacementEnds(o, ok)
    \/ Remount

SpecRow == InitRow /\ [][NextRow]_vars

\* ------------------------------------------------------------------------
\* The manual trading screen (TerminalManual) as a state machine.  Each call
\* of fetchPredictions and of fetchMarkets is an entry of refreshes, numbered
\* in the order the calls started; each await is a point where others run.

\* bound on the number of times the predictions are fetched
MaxRefreshes == 2

\* useState([]) of rawPredictions: no rows, from no fetch
NoRows == [version |-> 0, empty |-> TRUE]

\* useState([]) of markets: a list no refresh has set
NoList == [from |-> 0, preds |-> 0, matched |-> FALSE]

\* fetchPredictions up to its await: setPredsLoading(true)
StartFetchPredictions(screen) ==
    /\ manual' = [screen EXCEPT !.predsLoading = TRUE]
    /\ refreshes' = Append(refreshes,
            [kind |-> "predictions", pc |-> "fetching", preds |-> NoRows,
             refetched |-> FALSE])

\* the first render: both loading flags set, the mount effect has called
\* fetchPredictions, and the markets effect has done nothing yet
InitManual ==
    /\ MatcherParked
    /\ SizingParked
    /\ KeysParked
    /\ ClientParked
    /\ ScannerParked
    /\ tradingForm = [settings |-> defaults, saved |-> FALSE, timers |-> 0]
    /\ settingsStore = [tag |-> "null", value |-> defaults]
    /\ envelope = [pc |-> "idle", format |-> "pkcs8", der |-> <<>>,
                   pkcs8Der |-> <<>>]
    /\ row = <<>>
    /\ orders = <<>>
    /\ \E keysReady \in BOOLEAN :
          manual = [ keysReady |-> keysReady, predsLoading |-> TRUE,
                     marketsLoading |-> TRUE, rawPredictions |-> NoRows,
                     markets |-> NoList, marketsError |-> FALSE ]
    /\ refreshes = << [kind |-> "predictions", pc |-> "fetching",
                       preds |-> NoRows, refetched |-> FALSE] >>

\* onClick of Refresh, which is disabled while both flags are set:
\* refreshAll calls fetchPredictions
refreshAll ==
    /\ ~(manual.predsLoading /\ manual.marketsLoading)
    /\ Cardinality({ i \in DOMAIN refreshes :
                        refreshes[i].kind = "predictions" }) < MaxRefreshes
    /\ StartFetchPredictions(manual)
    /\ UNCHANGED <<tradingForm, settingsStore, envelope, row, orders>>
    /\ UNCHANGED <<matcherVars, sizingVars, keyVars, clientVars, scannerVars>>

\* fetchPredictions after its await: the rows, or none after an error, are
\* stored and predsLoading is cleared.  fetchMarkets is made anew for the new
\* rawPredictions, so the markets effect runs and calls it: marketsLoading is
\* set, the error cleared, and the call awaits hasKalshiKeys.
PredictionsReturn(i, ok, empty) ==
    /\ refreshes[i].kind = "predictions"
    /\ refreshes[i].pc = "fetching"
    /\ LET rows == IF ok THEN [version |-> i, empty |-> empty] ELSE NoRows
       IN  /\ manual' = [manual EXCEPT !.rawPredictions = rows,
                                       !.predsLoading = FALSE,
                                       !.marketsLoading = TRUE,
                                       !.marketsError = FALSE]
           /\ refreshes' = Append([refreshes EXCEPT ![i].pc = "done"],
                   [kind |-> "markets", pc |-> "keys", preds |-> rows,
                    refetched |-> FALSE])
    /\ UNCHANGED <<tradingForm, settingsStore, envelope, row, orders>>
    /\ UNCHANGED <<matcherVars, sizingVars, keyVars, clientVars, scannerVars>>

\* fetchMarkets after hasKalshiKeys: without keys the error is shown and the
\* call returns, leaving the list as it is; with keys it goes on to fetch the
\* predictions itself when it has none, else the instruments
KeysChecked(i) ==
    /\ refreshes[i].kind = "markets"
    /\ refreshes[i].pc = "keys"
    /\ IF ~manual.keysReady
         THEN /\ manual' = [manual EXCEPT !.marketsError = TRUE,
                                          !.marketsLoading = FALSE]
              /\ refreshes' = [refreshes EXCEPT ![i].pc = "done"]
         ELSE /\ manual' = manual
              /\ refreshes' = [refreshes EXCEPT ![i].pc =
                     IF refreshes[i].preds.empty THEN "refetching" ELSE "fetching"]
    /\ UNCHANGED <<tradingForm, settingsStore, envelope, row, orders>>
    /\ UNCHANGED <<matcherVars, sizingVars, keyVars, clientVars, scannerVars>>

\* fetchMarkets after its own query for the predictions (preds.length === 0)
PredictionsRefetched(i, empty) ==
    /\ refreshes[i].kind = "markets"
    /\ refreshes[i].pc = "refetching"
    /\ refreshes' = [refreshes EXCEPT ![i].pc = "fetching",
                                      ![i].refetched = TRUE,
                                      ![i].preds = [version |-> i, empty |-> empty]]
    /\ UNCHANGED <<manual, tradingForm, settingsStore, envelope, row, orders>>
    /\ UNCHANGED <<matcherVars, sizingVars, keyVars, clientVars, scannerVars>>

\* fetchMarkets after the race of fetchNbaMarkets and the 15 s timer: the
\* instruments are matched with the call's predictions and the list is set,
\* or the error is shown and the list emptied; marketsLoading is cleared
MarketsReturn(i, ok) ==
    /\ refreshes[i].kind = "markets"
    /\ refreshes[i].pc = "fetching"
    /\ manual' = [manual EXCEPT
            !.markets = [from |-> i, preds |-> refreshes[i].preds.version,
                         matched |-> ok],
            !.marketsError = IF ok THEN manual.marketsError ELSE TRUE,
            !.marketsLoading = FALSE]
    /\ refreshes' = [refreshes EXCEPT ![i].pc = "done"]
    /\ UNCHANGED <<tradingForm, settingsStore, envelope, row, orders>>
    /\ UNCHANGED <<matcherVars, sizingVars, keyVars, clientVars, scannerVars>>

NextManual ==
    \/ refreshAll
    \/ \E i \in DOMAIN refreshes, ok \in BOOLEAN, empty \in BOOLEAN :
            PredictionsReturn(i, ok, empty)
    \/ \E i \in DOMAIN refreshes : KeysChecked(i)
    \/ \E i \in DOMAIN refreshes, empty \in BOOLEAN : PredictionsRefetched(i, empty)
    \/ \E i \in DOMAIN refreshes, ok \in BOOLEAN : MarketsReturn(i, ok)

SpecManual == InitManual /\ [][NextManual]_vars

\* ------------------------------------------------------------------------
\* Vocabulary of the matcher's properties, stated without the matcher's own
\* helpers

\* t occurs in s as a contiguous run of characters
Contains(s, t) ==
    \E i \in 0..(Len(s) - Len(t)) : SubSeq(s, i + 1, i + Len(t)) = t

\* seg is the last "-"-separated segment of s
IsLastSegment(s, seg) ==
    /\ Len(seg) <= Len(s)
    /\ SubSeq(s, Len(s) - Len(seg) + 1, Len(s)) = seg
    /\ \A k \in 1..Len(seg) : seg[k] # "-"
    /\ (Len(seg) < Len(s) => s[Len(s) - Len(seg)] = "-")

\* the label has an entry of its own in the abbreviation table
HasAbbrMapping(label) == label \in DOMAIN TEAM_ABBR_MAP

\* the prediction and the market that matched[i] was built from
PredOf(i) == predictions[origin[i].pi]

MarketOf(i) == markets[origin[i].mi]

\* ------------------------------------------------------------------------
\* C1: every opportunity returned by the matcher is on the yes side and refers
\* to an instrument whose eventTicker contains the abbreviations of both the
\* home and the away team and whose ticker's last "-"-separated segment is the
\* predicted winner's abbreviation.
\* Violated: a label such as "__proto__" passes the !homeAbbr guard through the
\* prototype chain although the table has no abbreviation for it (see C3).
C1_YesOnWinnerContract ==
    mpc = "done" =>
        \A i \in DOMAIN matched :
            LET g == matched[i]
                m == MarketOf(i)
            IN  /\ g.betSide = "yes"
                /\ g.marketTicker = m.ticker
                /\ g.predictedWinner \in {g.homeName, g.awayName}
                /\ HasAbbrMapping(g.homeName)
                /\ HasAbbrMapping(g.awayName)
                /\ Contains(m.eventTicker, TEAM_ABBR_MAP[g.homeName])
                /\ Contains(m.eventTicker, TEAM_ABBR_MAP[g.awayName])
                /\ IsLastSegment(m.ticker, TEAM_ABBR_MAP[g.predictedWinner])

\* What does hold of C1's case: the side is always yes and the ticker's last
\* segment is always the table abbreviation of the predicted winner, and the
\* event contains both abbreviations whenever both labels are table entries.
C1_YesOnWinnerSuffix ==
    mpc = "done" =>
        \A i \in DOMAIN matched :
            LET g == matched[i]
                m == MarketOf(i)
            IN  /\ g.betSide = "yes"
                /\ g.marketTicker = m.ticker
                /\ HasAbbrMapping(g.predictedWinner)
                /\ IsLastSegment(m.ticker, TEAM_ABBR_MAP[g.predictedWinner])
                /\ (HasAbbrMapping(g.homeName) /\ HasAbbrMapping(g.awayName) =>
                        /\ Contains(m.eventTicker, TEAM_ABBR_MAP[g.homeName])
                        /\ Contains(m.eventTicker, TEAM_ABBR_MAP[g.awayName]))

\* ------------------------------------------------------------------------
\* C2 as the specification states it: the predicted winner is the home team
\* exactly when the home-win probability is >= 0.5, and modelProb is the
\* home probability for a home pick and 1 - homeProbability for an away pick.
C2_WinnerByProbability ==
    mpc = "done" =>
        \A i \in DOMAIN matched :
            LET g == matched[i]
                p == PredOf(i)
            IN  IF 2 * p.PREDICTION_PCT.n >= ONE
                    THEN /\ g.predictedWinner = p.HOME_NAME
                         /\ g.modelProb = p.PREDICTION_PCT.n
                    ELSE /\ g.predictedWinner = p.AWAY_NAME
                         /\ g.modelProb = ONE - p.PREDICTION_PCT.n

\* C2 amended: the predicted winner is the home team exactly when the
\* PREDICTION field is 1, and the away team otherwise; modelProb is
\* PREDICTION_PCT for a home pick and 1 - PREDICTION_PCT for an away pick.
\* PREDICTION_PCT plays no part in the pick.
C2_WinnerByPredictionField ==
    mpc = "done" =>
        \A i \in DOMAIN matched :
            LET g == matched[i]
                p == PredOf(i)
            IN  /\ p.PREDICTION.tag = "number"
                /\ p.PREDICTION_PCT.tag = "number"
                /\ IF p.PREDICTION.n = 1
                    THEN /\ g.predictedWinner = p.HOME_NAME
                         /\ g.modelProb = p.PREDICTION_PCT.n
                    ELSE /\ g.predictedWinner = p.AWAY_NAME
                         /\ g.modelProb = ONE - p.PREDICTION_PCT.n

\* C2 witness: the call returned a home pick and an away pick, the away pick
\* from a prediction whose home-win probability is above one half
C2_Witness ==
    /\ mpc = "done"
    /\ \E i \in DOMAIN matched :
            /\ PredOf(i).PREDICTION = Num(1)
            /\ matched[i].predictedWinner = PredOf(i).HOME_NAME
    /\ \E i \in DOMAIN matched :
            /\ PredOf(i).PREDICTION = Num(0)
            /\ 2 * PredOf(i).PREDICTION_PCT.n > ONE
            /\ matched[i].predictedWinner = PredOf(i).AWAY_NAME
            /\ PredOf(i).AWAY_NAME # PredOf(i).HOME_NAME

\* ------------------------------------------------------------------------
\* C3: every opportunity comes from a prediction whose probability is
\* non-null and whose two team labels both have an abbreviation mapping, and
\* from an instrument whose yes ask is present and strictly between 0 and 1.
\* Violated: HOME_NAME "__proto__" has no entry in the table, yet the lookup
\* yields Object.prototype, which is truthy, and the prediction is matched.
C3_OnlyUsableInputs ==
    mpc = "done" =>
        \A i \in DOMAIN matched :
            LET p == PredOf(i)
                m == MarketOf(i)
            IN  /\ p.PREDICTION_PCT # Null
                /\ HasAbbrMapping(p.HOME_NAME)
                /\ HasAbbrMapping(p.AWAY_NAME)
                /\ m.yesAsk.tag = "number"
                /\ 0 < m.yesAsk.n
                /\ m.yesAsk.n < ONE

\* What does hold of C3's case: the probability and price parts
C3_ProbabilityAndPrice ==
    mpc = "done" =>
        \A i \in DOMAIN matched :
            LET p == PredOf(i)
                m == MarketOf(i)
            IN  /\ p.PREDICTION # Null
                /\ p.PREDICTION_PCT # Null
                /\ m.yesAsk.tag = "number"
                /\ 0 < m.yesAsk.n
                /\ m.yesAsk.n < ONE

\* ------------------------------------------------------------------------
\* C4: for every opportunity, edge = (modelProb - yesAsk) * 100 and
\* marketImpliedProb is the accepted instrument's yesAsk; model probability
\* 0.72 with yesAsk 0.60 gives edge +12.
C4_EdgeFormula ==
    mpc = "done" =>
        \A i \in DOMAIN matched :
            LET g == matched[i]
                m == MarketOf(i)
            IN  /\ m.yesAsk.tag = "number"
                /\ g.marketImpliedProb = m.yesAsk.n
                /\ g.yesAsk = m.yesAsk
                /\ g.edge = (g.modelProb - m.yesAsk.n) * 100
                /\ (g.modelProb = 72 /\ m.yesAsk.n = 60 => g.edge = 1200)

\* C4 witness: an opportunity with model probability 0.72 on an instrument
\* asking 0.60
C4_Witness ==
    /\ mpc = "done"
    /\ \E i \in DOMAIN matched :
            /\ matched[i].modelProb = 72
            /\ MarketOf(i).yesAsk = Num(60)
            /\ matched[i].edge = 1200

\* ------------------------------------------------------------------------
\* C5: the returned list is ordered by edge, non-increasing
C5_SortedByEdgeDesc ==
    mpc = "done" =>
        \A i \in 1..(Len(matched) - 1) : matched[i].edge >= matched[i + 1].edge

\* C5 witness: two opportunities of different edge came out in the reverse of
\* their input order
C5_Witness ==
    /\ mpc = "done"
    /\ Len(matched) >= 2
    /\ origin[1].pi > origin[2].pi
    /\ matched[1].edge > matched[2].edge

\* ------------------------------------------------------------------------
\* Vocabulary of the sizing properties

\* n is the floor of x / y for y > 0, in exact arithmetic
IsExactFloor(n, x, y) == n * y <= x /\ x < (n + 1) * y

\* n is what Math.floor(x / y) can return for y > 0: the exact floor, or one
\* less where the exact quotient is a whole number and the double division
\* falls just short of it
IsFloatFloor(n, x, y) ==
    \/ IsExactFloor(n, x, y)
    \/ n * y < x /\ x = (n + 1) * y

\* ------------------------------------------------------------------------
\* C7: in contracts mode the count is max(1, floor(amount)) for every price,
\* prices <= 0 included; amount 10 gives 10 whatever the price.
C7_ContractsModeCount ==
    spc = "done" /\ sizingMode = "contracts" =>
        /\ contractCount >= 1
        /\ \E n \in (0 - MinAmountQuarters)..MaxAmountQuarters :
                /\ IsExactFloor(n, betAmount, ONE)
                /\ contractCount = (IF n >= 1 THEN n ELSE 1)
        /\ (betAmount = 10 * ONE => contractCount = 10)

\* C7 witness: amount 10 in contracts mode, called with a price <= 0
C7_Witness ==
    /\ spc = "done"
    /\ sizingMode = "contracts"
    /\ betAmount = 10 * ONE
    /\ priceDollars <= 0
    /\ contractCount = 10

C9_DollarsUnderBudget ==
    spc = "done" /\ sizingMode = "dollars" /\ 0 < priceDollars /\ priceDollars < ONE =>
        contractCount * priceDollars <= betAmount

\* What does hold of C9's case: the order stays under budget whenever the
\* amount covers at least one contract
C9_UnderBudgetWhenAffordable ==
    spc = "done" /\ sizingMode = "dollars" /\ 0 < priceDollars /\ priceDollars < ONE
        /\ betAmount >= priceDollars =>
        contractCount * priceDollars <= betAmount

\* ------------------------------------------------------------------------
\* Vocabulary of the key import properties

\* the header of the picked file names neither the raw-key nor the
\* wrapped-key form
MalformedHeader(f) ==
    /\ ~Contains(PemHeader(PemFiles[f]), MARKER_PKCS8)
    /\ ~Contains(PemHeader(PemFiles[f]), MARKER_PKCS1)

\* an upload of a file with a malformed header never reaches the import
\* primitive or the key store, and ends with the format error naming the header
MalformedUploadsStopAtParse ==
    \A a \in DOMAIN uploads :
        MalformedHeader(uploads[a].file) =>
            /\ uploads[a].pc \in {"reading", "failed"}
            /\ ~uploads[a].calledImport
            /\ ~uploads[a].wroteStore
            /\ uploads[a].key = NoKey
            /\ (uploads[a].pc = "failed" =>
                    /\ uploads[a].error.text = UnsupportedFormatText
                    /\ uploads[a].error.detail = PemHeader(PemFiles[uploads[a].file]))

\* a step of an upload with a malformed header (its start or its failure)
\* leaves the key store as it was, and its failure shows the format error
MalformedUploadStepKeepsStore ==
    /\ (Len(uploads') > Len(uploads) /\ MalformedHeader(uploads'[Len(uploads')].file) =>
            keyStore' = keyStore)
    /\ \A a \in DOMAIN uploads :
            MalformedHeader(uploads[a].file) /\ uploads'[a] # uploads[a] =>
                /\ keyStore' = keyStore
                /\ uploads'[a].pc = "failed"
                /\ pemStatus' = "error"
                /\ pemError' = ErrorMessage(UnsupportedFormatText,
                                            PemHeader(PemFiles[uploads[a].file]))

\* ------------------------------------------------------------------------
\* C10: importing a PEM whose header is neither "BEGIN RSA PRIVATE KEY" nor
\* "BEGIN PRIVATE KEY" fails with the format error that reports the header,
\* before crypto.subtle.importKey is called, and stores no key: the key store
\* holds what it held before.
C10_MalformedHeaderRejected ==
    []MalformedUploadsStopAtParse /\ [][MalformedUploadStepKeepsStore]_vars

\* C10 witness: an upload with a malformed header has failed and its error is
\* on screen, while the key store holds the key another upload put there
C10_Witness ==
    \E a \in DOMAIN uploads :
        /\ MalformedHeader(uploads[a].file)
        /\ uploads[a].pc = "failed"
        /\ pemStatus = "error"
        /\ pemError = ErrorMessage(UnsupportedFormatText, PemHeader(PemFiles[uploads[a].file]))
        /\ keyStore # NoKey

\* ------------------------------------------------------------------------
\* Vocabulary of the exchange client's properties

\* a handle that can sign and do nothing else: crypto.subtle.exportKey and
\* wrapKey refuse a key that is not extractable
SignOnlyHandle(key) ==
    /\ key.type = "private"
    /\ ~key.extractable
    /\ key.usages = {"sign"}

\* text that carries the key: its DER bytes in base64, or a PEM file of them
Reveals(text, key) ==
    /\ text # <<>>
    /\ \/ ~AtobThrows(text) /\ Atob(text) = key.material
       \/ LET parsed == parsePem(text)
          IN  parsed.ok /\ Pkcs8Der(parsed) = key.material

\* the strings of a body POSTed to the proxy
ProxyBodyStrings(json) ==
    {json.method, json.path, json.query.s, json.kalshiKeyId.s, json.timestamp}
        \cup (IF json.body.tag = "object"
                THEN {json.body.fields.ticker,
                      json.body.fields[PriceField(json.body.fields.side)]}
                ELSE {})

\* the strings of a request sent to the exchange
UpstreamStrings(request) ==
    {request.url, request.method, request.accessKey.s, request.accessTimestamp}

\* every string that a request to the proxy or to the exchange has carried
RequestStrings ==
    UNION { ProxyBodyStrings(toProxy[r].json) : r \in DOMAIN toProxy }
        \cup UNION { UpstreamStrings(upstream[u].request) : u \in DOMAIN upstream }

\* the handles the client works with: the stored one and those the calls loaded
HandlesInUse ==
    {keyStore} \cup { calls[a].cryptoKey : a \in DOMAIN calls }

\* ------------------------------------------------------------------------
\* C11: every key that importPemKey produced and the key store holds, or a call
\* has loaded, is a private key that is not extractable and usable for signing
\* only, and no string that the client puts into a request to the proxy, or the
\* proxy into a request to the exchange, carries the key's bytes (as base64 or
\* as a PEM file); the one thing made from the key in a request is the
\* signature, which names the key's public half only.
C11_KeyNeverRevealed ==
    \A key \in HandlesInUse \ {NoKey} :
        /\ SignOnlyHandle(key)
        /\ \A text \in RequestStrings : ~Reveals(text, key)
        /\ \A r \in DOMAIN toProxy :
            toProxy[r].json.signature.of.signer
                = PublicHalf(calls[toProxy[r].call].cryptoKey)

\* C11, on the settings screen: every key an upload got from the import
\* primitive, and every key the store holds through uploads and removals, is
\* not extractable and usable for signing only.
C11_StoredKeysSignOnly ==
    /\ keyStore # NoKey => SignOnlyHandle(keyStore)
    /\ \A a \in DOMAIN uploads :
            uploads[a].key # NoKey => SignOnlyHandle(uploads[a].key)

\* C11 witness: with a key in the store, an order signed with it has gone
\* through the proxy to the exchange
C11_Witness ==
    /\ keyStore # NoKey
    /\ \E u \in DOMAIN upstream :
        /\ calls[upstream[u].call].cryptoKey = keyStore
        /\ upstream[u].request.body.tag = "object"

\* C11 witness on the settings screen: an uploaded key is in the store
C11_StoredWitness ==
    \E a \in DOMAIN uploads : uploads[a].wroteStore /\ keyStore = uploads[a].key

\* ------------------------------------------------------------------------
\* C12: for every request that reaches the exchange, what was signed is the
\* timestamp, then the method, then the path, and nothing else; the URL is the
\* exchange host and that path, with the query string (if any) after a "?";
\* the three headers carry the key id the call loaded, the timestamp that
\* starts the signed message, and the signature the loaded key made of that
\* message.  The same holds of the body POSTed to the proxy.
C12_SignedMessageAndHeaders ==
    /\ \A u \in DOMAIN upstream :
        LET call   == calls[upstream[u].call]
            req    == upstream[u].request
            signed == req.accessSignature.of
        IN  /\ signed.message = req.accessTimestamp \o req.method \o call.req.path
            /\ signed.signer = PublicHalf(call.cryptoKey)
            /\ signed.algorithm = "RSA-PSS"
            /\ req.accessKey = call.keyId
            /\ call.keyId.tag = "string"
            /\ req.accessTimestamp = call.timestamp
            /\ req.url = (IF call.req.query.tag = "string"
                            THEN KALSHI_BASE \o call.req.path \o <<"?">>
                                    \o call.req.query.s
                            ELSE KALSHI_BASE \o call.req.path)
            /\ ~Contains(signed.message, <<"?">>)
            /\ call.req.query.tag = "string" =>
                    ~Contains(signed.message, call.req.query.s)
    /\ \A r \in DOMAIN toProxy :
        LET call   == calls[toProxy[r].call]
            json   == toProxy[r].json
        IN  /\ json.signature.of.message = json.timestamp \o json.method \o json.path
            /\ json.path = call.req.path
            /\ json.kalshiKeyId = call.keyId
            /\ json.query = call.req.query

\* C12 witness: a positions request, which has a query string, has reached the
\* exchange
C12_Witness ==
    \E u \in DOMAIN upstream :
        /\ calls[upstream[u].call].op = "fetchPositions"
        /\ Contains(upstream[u].request.url,
                    <<"?","l","i","m","i","t","=","2","0","0">>)

\* ------------------------------------------------------------------------
\* C13: a call that found no signing key or no key id when it loaded them has
\* failed with the keys-not-configured error, has signed nothing and has sent
\* nothing; and every call that got past loading found both.
C13_NoCredentialFailsFirst ==
    \A a \in DOMAIN calls :
        calls[a].pc # "loading" =>
            IF calls[a].cryptoKey = NoKey \/ calls[a].keyId.tag # "string"
                \/ calls[a].keyId.s = <<>>
              THEN /\ calls[a].pc = "failed"
                   /\ calls[a].error = MissingCredentialsError
                   /\ calls[a].message = <<>>
                   /\ calls[a].fetches = 0
                   /\ \A r \in DOMAIN toProxy : toProxy[r].call # a
                   /\ \A u \in DOMAIN upstream : upstream[u].call # a
              ELSE calls[a].error # MissingCredentialsError

\* C13 witness: with a key stored but no key id, an order placement has failed
\* with the keys-not-configured error
C13_Witness ==
    \E a \in DOMAIN calls :
        /\ calls[a].op = "placeOrder"
        /\ calls[a].pc = "failed"
        /\ calls[a].error = MissingCredentialsError
        /\ calls[a].cryptoKey # NoKey

\* ------------------------------------------------------------------------
\* C14: a call whose request was answered with a status outside 200-299 has
\* failed with an error that carries that status and the response body, has
\* no parsed result, and has sent its request exactly once; and no call ever
\* sends its request a second time.
C14_NonSuccessFailsWithoutRetry ==
    /\ \A r \in DOMAIN toProxy :
        LET call == calls[toProxy[r].call]
        IN  (toProxy[r].state = "answered"
                /\ (call.response.status < 200 \/ call.response.status > 299)) =>
                /\ call.pc = "failed"
                /\ call.error.kind = "kalshi-api-error"
                /\ call.error.status = call.response.status
                /\ call.error.body = call.response.body
                /\ call.result = <<>>
    /\ \A a \in DOMAIN calls :
        /\ calls[a].fetches <= 1
        /\ Cardinality({ r \in DOMAIN toProxy : toProxy[r].call = a })
                = calls[a].fetches
        /\ Cardinality({ u \in DOMAIN upstream : upstream[u].call = a }) <= 1

\* C14 witness: the exchange answered 300 with a JSON body, the proxy relayed
\* it, and the call failed
C14_Witness ==
    \E r \in DOMAIN toProxy :
        /\ toProxy[r].state = "answered"
        /\ calls[toProxy[r].call].response.status = 300
        /\ calls[toProxy[r].call].response.body.kind = "json"
        /\ calls[toProxy[r].call].pc = "failed"

\* ------------------------------------------------------------------------
\* Vocabulary of the amounts fetchBalance and fetchPositions return

\* <<decimal-string field, integer-cents field, amount returned>> for every
\* balance, portfolio value, exposure and total traded that a call returned
AmountsReturned ==
    UNION { LET data == calls[a].response.body.data
                got  == calls[a].result[1]
            IN  IF calls[a].op = "fetchBalance"
                  THEN { <<data.balance_dollars, data.balance, got.balance>>,
                         <<data.portfolio_value_dollars, data.portfolio_value,
                           got.portfolioValue>> }
                ELSE IF data.has_market_positions
                  THEN UNION { { <<data.market_positions[i].market_exposure_dollars,
                                   data.market_positions[i].market_exposure,
                                   got[i].exposure>>,
                                 <<data.market_positions[i].total_traded_dollars,
                                   data.market_positions[i].total_traded,
                                   got[i].totalTraded>> } :
                               i \in DOMAIN data.market_positions }
                ELSE {} :
            a \in { c \in DOMAIN calls :
                        /\ calls[c].pc = "done"
                        /\ calls[c].op \in {"fetchBalance", "fetchPositions"} } }

\* the amount for a field pair when the decimal string is taken iff `taken`
AmountOf(taken, dollarsField, centsField) ==
    IF taken THEN ParseFloat(dollarsField.s)
    ELSE IF centsField.tag = "number" THEN Num((centsField.n * ONE) \div 100)
    ELSE Num(0)

\* C15 as stated: the decimal-string field decides whenever it is present,
\* the empty string included
C15_DecimalWheneverPresent ==
    \A t \in AmountsReturned :
        t[3] = AmountOf(t[1].tag = "string", t[1], t[2])

\* C15: for balance, portfolio value, position exposure and total traded, the
\* client returns the value of the decimal-string field whenever that field
\* is present and not empty, and otherwise the integer-cents field divided by
\* 100 (0 when both are absent); the integer field is never used when the
\* decimal-string field is present and not empty.
C15_DecimalWhenPresentAndNonEmpty ==
    \A t \in AmountsReturned :
        t[3] = AmountOf(t[1].tag = "string" /\ t[1].s # <<>>, t[1], t[2])

\* C15 witness: one answer held a decimal string next to a different integer
\* (-4.10 and 5 cents), an integer alone, an empty decimal string next to an
\* integer, and neither field
C15_Witness ==
    /\ <<StringValue(<<"-","4",".","1","0">>), Num(5), Num(0 - 410)>>
            \in AmountsReturned
    /\ \E t \in AmountsReturned :
            t[1].tag = "undefined" /\ t[2].tag = "number" /\ t[3] = Num(820)
    /\ \E t \in AmountsReturned :
            t[1] = StringValue(<<>>) /\ t[2].tag = "number" /\ t[3] = Num(60)
    /\ \E t \in AmountsReturned :
            t[1].tag = "undefined" /\ t[2].tag = "undefined" /\ t[3] = Num(0)

\* ------------------------------------------------------------------------
\* Vocabulary of the instruments fetchNbaMarkets returns

\* <<decimal-string field, integer-cents field, ask returned>> for the yes
\* and the no ask of every instrument that a call returned
AsksReturned ==
    UNION { LET data == calls[a].response.body.data
                got  == calls[a].result[1]
            IN  UNION { { <<data.markets[i].yes_ask_dollars,
                            data.markets[i].yes_ask, got[i].yesAsk>>,
                          <<data.markets[i].no_ask_dollars,
                            data.markets[i].no_ask, got[i].noAsk>> } :
                        i \in DOMAIN got } :
            a \in { c \in DOMAIN calls :
                        calls[c].pc = "done" /\ calls[c].op = "fetchNbaMarkets" } }

\* C16: an instrument whose ask arrives only as an integer-cents field (no
\* decimal-string field) is returned with its ask equal to that integer
\* divided by 100; the decimal string is taken only when it is there.
C16_IntegerAskDividedBy100 ==
    \A t \in AsksReturned :
        /\ (t[1].tag = "undefined" /\ t[2].tag = "number") =>
                t[3] = Num((t[2].n * ONE) \div 100)
        /\ (t[1].tag = "string" /\ t[1].s # <<>>) => t[3] = ParseFloat(t[1].s)

\* C16, the part that holds: an ask that arrives as a decimal string is
\* returned as that number, whatever the integer field holds, and an ask
\* without a decimal string is returned as undefined.
C16_DecimalAskOrUndefined ==
    \A t \in AsksReturned :
        t[3] = IF t[1].tag = "string" /\ t[1].s # <<>>
                 THEN ParseFloat(t[1].s) ELSE Undefined

\* ------------------------------------------------------------------------
\* Vocabulary of the orders placeOrder sends

\* the body of a placeOrder request carries the caller's arguments: action
\* "buy", type "limit", the caller's ticker, side, count and price, the price
\* under the name of the chosen side and under no other name
IsOrderAsCalled(body, args) ==
    /\ body.tag = "object"
    /\ body.fields.action = "buy"
    /\ body.fields.type = "limit"
    /\ body.fields.ticker = args.ticker
    /\ body.fields.side = args.side
    /\ body.fields.count = args.count
    /\ DOMAIN body.fields \cap {"yes_price_dollars", "no_price_dollars"}
            = { IF args.side = "yes" THEN "yes_price_dollars"
                ELSE "no_price_dollars" }
    /\ args.side = "yes" => body.fields["yes_price_dollars"] = args.priceDollars
    /\ args.side = "no" => body.fields["no_price_dollars"] = args.priceDollars
    /\ DOMAIN body.fields \ {"yes_price_dollars", "no_price_dollars"}
            = {"ticker", "side", "action", "count", "type"}

\* C17: every order placeOrder sends, to the proxy and through it to the
\* exchange, has action "buy" and type "limit", carries the caller's ticker,
\* side, count and price unchanged, and holds the price in the yes-price field
\* when side is "yes" and in the no-price field when side is "no", with exactly
\* one of the two price fields present.
C17_OrderAsCalled ==
    /\ \A r \in DOMAIN toProxy :
        calls[toProxy[r].call].op = "placeOrder" =>
            /\ toProxy[r].json.method = <<"P","O","S","T">>
            /\ IsOrderAsCalled(toProxy[r].json.body, calls[toProxy[r].call].args)
    /\ \A u \in DOMAIN upstream :
        calls[upstream[u].call].op = "placeOrder" =>
            /\ upstream[u].request.method = <<"P","O","S","T">>
            /\ IsOrderAsCalled(upstream[u].request.body, calls[upstream[u].call].args)

\* C17 witness: an order on the "no" side, one contract at 0.41, has reached
\* the exchange
C17_Witness ==
    \E u \in DOMAIN upstream :
        /\ calls[upstream[u].call].op = "placeOrder"
        /\ calls[upstream[u].call].args.side = "no"
        /\ upstream[u].request.body.fields.count = 1
        /\ upstream[u].request.body.fields["no_price_dollars"]
                = <<"0",".","4","1">>

\* ------------------------------------------------------------------------
\* C18: the user's exchange credentials never leave the device: no request
\* POSTed to the proxy route includes the private key or the API key
\* identifier, and the key identifier is kept nowhere but in IndexedDB, so
\* localStorage never holds it.
C18_CredentialsStayOnDevice ==
    /\ \A r \in DOMAIN toProxy :
        /\ \A key \in HandlesInUse \ {NoKey} :
            \A text \in ProxyBodyStrings(toProxy[r].json) : ~Reveals(text, key)
        /\ toProxy[r].json.kalshiKeyId.tag # "string"
    /\ keyIdStore.tag # "string"

\* C18, the part that holds: the private key is in no request POSTed to the
\* proxy route; what such a request holds of the key is a signature made
\* with it.
C18_PrivateKeyStaysOnDevice ==
    \A r \in DOMAIN toProxy :
        /\ \A text \in ProxyBodyStrings(toProxy[r].json) :
                ~Reveals(text, calls[toProxy[r].call].cryptoKey)
        /\ DOMAIN toProxy[r].json
                = {"method", "path", "query", "body", "kalshiKeyId",
                   "timestamp", "signature"}
        /\ toProxy[r].json.signature.encoding = "base64"

\* ------------------------------------------------------------------------
\* Vocabulary of the scanner's properties

\* the orders of this session placed for a ticker
OrdersFor(ticker) ==
    { k \in DOMAIN placedOrders : placedOrders[k].ticker = ticker }

\* the opportunities of the cycle that the loop is done with
Evaluated == { i \in DOMAIN cycleOpps : i < cycleIdx }

\* the event of a kind emitted in the current cycle for a ticker
EmittedNow(kind, ticker) ==
    \E e \in DOMAIN scanEvents :
        /\ scanEvents[e].kind = kind
        /\ scanEvents[e].cycle = cycleNo
        /\ scanEvents[e].ticker = ticker

\* ------------------------------------------------------------------------
\* C19: within one scanner session no two placed orders have the same ticker;
\* and once a cycle is done with an opportunity whose edge is above the
\* threshold and whose placement did not fail in that cycle, exactly one order
\* of the session is for its ticker, whether this cycle placed it or an
\* earlier one did.
C19_OneOrderPerTickerPerSession ==
    /\ \A j, k \in DOMAIN placedOrders :
            placedOrders[j].ticker = placedOrders[k].ticker => j = k
    /\ \A t \in dedupedTickers : Cardinality(OrdersFor(t)) = 1
    /\ \A i \in Evaluated :
            (cycleOpps[i].edge > scanConfig.edgeThresholdPercent
                /\ ~EmittedNow("error", cycleOpps[i].marketTicker)) =>
                    Cardinality(OrdersFor(cycleOpps[i].marketTicker)) = 1

\* C19 witness: the second cycle of a session is done with an opportunity above
\* the threshold for which the first cycle placed the session's only order
C19_Witness ==
    /\ cycleNo = 2
    /\ Len(placedOrders) = 1
    /\ placedOrders[1].cycle = 1
    /\ \E i \in Evaluated :
        /\ cycleOpps[i].marketTicker = placedOrders[1].ticker
        /\ cycleOpps[i].edge > scanConfig.edgeThresholdPercent

\* ------------------------------------------------------------------------
\* C20: every order the scanner placed, and every order it has dispatched, is
\* for an opportunity whose edge is strictly above the configured threshold;
\* an opportunity whose edge equals the threshold or lies below it gets no
\* placement in its cycle.  With edge 12 an order is placed under threshold 10
\* only, not under 12 or 13.
C20_PlacedOnlyAboveThreshold ==
    /\ \A k \in DOMAIN placedOrders :
            placedOrders[k].edge > scanConfig.edgeThresholdPercent
    /\ scanPc = "Placing" =>
            cycleOpps[cycleIdx].edge > scanConfig.edgeThresholdPercent
    /\ \A i \in Evaluated :
            cycleOpps[i].edge <= scanConfig.edgeThresholdPercent =>
                ~EmittedNow("placed", cycleOpps[i].marketTicker)
    /\ \A k \in DOMAIN placedOrders :
            placedOrders[k].edge = 12 * ONE =>
                scanConfig.edgeThresholdPercent < 12 * ONE

\* C20 witness: with threshold 10 an order was placed for the opportunity of
\* edge 12
C20_Witness ==
    /\ scanConfig.edgeThresholdPercent = 10 * ONE
    /\ \E k \in DOMAIN placedOrders : placedOrders[k].edge = 12 * ONE

\* C20, the boundary reached: with threshold 12 and with threshold 13 a cycle
\* is done with the opportunity of edge 12 and the session has no order
C20_BoundaryReached ==
    /\ scanConfig.edgeThresholdPercent \in {12 * ONE, 13 * ONE}
    /\ \E i \in Evaluated : cycleOpps[i].edge = 12 * ONE
    /\ placedOrders = <<>>

\* ------------------------------------------------------------------------
\* C21: a failed placement emits an "error" event for its ticker, leaves
\* dedupedTickers as it was and moves the loop on to the next opportunity of
\* the cycle; a failed fetch emits an "error" event and ends the cycle in
\* Idle.  A ticker is in dedupedTickers only when an order was placed for it,
\* so a ticker whose placements have all failed still qualifies on a later
\* cycle, and the loop is disabled by a stop request only, never by a failure.
C21_FailureDoesNotHalt ==
    /\ [](/\ \A t \in dedupedTickers : OrdersFor(t) # {}
          /\ (scanPc = "Disabled" /\ cycleNo > 0) => stopRequested)
    /\ [][/\ (scanPc = "Placing" /\ scanPc' # "Placing"
                                  /\ placedOrders' = placedOrders) =>
                /\ scanEvents' = Append(scanEvents,
                        ScanEvent("error", cycleNo,
                                  cycleOpps[cycleIdx].marketTicker, <<0, 0, 0>>))
                /\ dedupedTickers' = dedupedTickers
                /\ scanPc' = "Evaluating"
                /\ cycleIdx' = cycleIdx + 1
                /\ cycleOpps' = cycleOpps
          /\ (scanPc = "Polling" /\ scanPc' \notin {"Polling", "Evaluating"}) =>
                /\ scanPc' = "Idle"
                /\ scanEvents' = Append(scanEvents,
                        ScanEvent("error", cycleNo, <<>>, <<0, 0, 0>>))
                /\ dedupedTickers' = dedupedTickers
          /\ (scanPc # "Disabled" /\ scanPc' = "Disabled") =>
                (scanPc = "Idle" /\ stopRequested)]_vars

\* C21 witness: the placement for a ticker failed in the first cycle and the
\* second cycle placed the order for the same ticker
C21_Witness ==
    \E e \in DOMAIN scanEvents : \E k \in DOMAIN placedOrders :
        /\ scanEvents[e].kind = "error"
        /\ scanEvents[e].cycle = 1
        /\ scanEvents[e].ticker = placedOrders[k].ticker
        /\ placedOrders[k].cycle = 2

\* C21, after a failed fetch: the fetch of the first cycle failed and the
\* second cycle fetched and matched
C21_FetchWitness ==
    \E e, f \in DOMAIN scanEvents :
        /\ scanEvents[e].kind = "error"
        /\ scanEvents[e].cycle = 1
        /\ scanEvents[e].ticker = <<>>
        /\ scanEvents[f].kind = "scan"
        /\ scanEvents[f].cycle = 2

C22_StoppedWitness ==
    /\ scanPc = "Disabled"
    /\ stopRequested
    /\ cycleNo = 1
    /\ Len(placedOrders) = 1

\* ------------------------------------------------------------------------
\* Vocabulary of the settings form's properties

\* the trading configuration read back from the store
Persisted == settingsStore.value

\* ------------------------------------------------------------------------
\* C23: whatever was edited and saved, the persisted trading configuration has
\* an edge threshold above 0 and a bet amount above 0.
C23_PersistedPositive ==
    settingsStore.tag = "json" =>
        /\ Persisted.edgeThreshold.tag = "number"
        /\ Persisted.edgeThreshold.n > 0
        /\ Persisted.betAmount.tag = "number"
        /\ Persisted.betAmount.n > 0

\* C23, the bet amount alone: the persisted bet amount is 1 or more, since the
\* amount field takes no value below 1
C23_PersistedAmountAtLeastOne ==
    settingsStore.tag = "json" =>
        /\ Persisted.betAmount.tag = "number"
        /\ Persisted.betAmount.n >= ONE

\* C23, the amount half reached: a bet amount other than the default was saved
C23_AmountWitness ==
    /\ settingsStore.tag = "json"
    /\ Persisted.betAmount # defaults.betAmount

\* ------------------------------------------------------------------------
\* Vocabulary of the matcher's choice of an instrument

\* the prediction has both fields and both of its labels are table entries
Matchable(p) ==
    /\ p.PREDICTION.tag = "number"
    /\ p.PREDICTION_PCT.tag = "number"
    /\ HasAbbrMapping(p.HOME_NAME)
    /\ HasAbbrMapping(p.AWAY_NAME)

\* the instrument's event names both teams of the prediction and its ticker
\* ends in the abbreviation of the predicted winner
QualifiesStructurally(p, m) ==
    /\ Contains(m.eventTicker, TEAM_ABBR_MAP[p.HOME_NAME])
    /\ Contains(m.eventTicker, TEAM_ABBR_MAP[p.AWAY_NAME])
    /\ IsLastSegment(m.ticker,
            TEAM_ABBR_MAP[IF p.PREDICTION.n = 1 THEN p.HOME_NAME ELSE p.AWAY_NAME])

\* the instrument has an ask strictly between 0 and 1
HasValidAsk(m) == m.yesAsk.tag = "number" /\ m.yesAsk.n > 0 /\ m.yesAsk.n < ONE

\* the opportunities returned for the prediction at input position pi
OpportunitiesOf(pi) == { i \in DOMAIN matched : origin[i].pi = pi }

\* ------------------------------------------------------------------------
\* C24 as the specification states it: the first instrument, in input order,
\* that structurally qualifies decides: with a valid ask it is the
\* prediction's one opportunity, with no ask or an ask outside (0,1) the
\* prediction has no opportunity; no prediction has two opportunities.
C24_FirstQualifierDecides ==
    mpc = "done" =>
        \A pi \in DOMAIN predictions :
            /\ Cardinality(OpportunitiesOf(pi)) <= 1
            /\ Matchable(predictions[pi]) =>
                \A mi \in DOMAIN markets :
                    (/\ QualifiesStructurally(predictions[pi], markets[mi])
                     /\ \A k \in 1..(mi - 1) :
                            ~QualifiesStructurally(predictions[pi], markets[k])) =>
                        IF HasValidAsk(markets[mi])
                            THEN \E i \in OpportunitiesOf(pi) : origin[i].mi = mi
                            ELSE OpportunitiesOf(pi) = {}

\* C24 amended: the first instrument, in input order, that structurally
\* qualifies and has an ask inside (0,1) is the prediction's one opportunity;
\* structurally qualifying instruments before it with no ask or an ask
\* outside (0,1) are passed over; a prediction with no such instrument has
\* no opportunity, and no prediction has two.
C24_FirstValidQualifierAccepted ==
    mpc = "done" =>
        \A pi \in DOMAIN predictions :
            /\ Cardinality(OpportunitiesOf(pi)) <= 1
            /\ Matchable(predictions[pi]) =>
                /\ \A i \in OpportunitiesOf(pi) :
                        /\ QualifiesStructurally(predictions[pi], MarketOf(i))
                        /\ HasValidAsk(MarketOf(i))
                        /\ \A k \in 1..(origin[i].mi - 1) :
                                ~(/\ QualifiesStructurally(predictions[pi], markets[k])
                                  /\ HasValidAsk(markets[k]))
                /\ (\E mi \in DOMAIN markets :
                        /\ QualifiesStructurally(predictions[pi], markets[mi])
                        /\ HasValidAsk(markets[mi]))
                    => OpportunitiesOf(pi) # {}

\* C24 witness: the first structurally qualifying instrument of a prediction
\* has no valid ask and the opportunity returned is a later instrument
C24_Witness ==
    /\ mpc = "done"
    /\ \E i \in DOMAIN matched :
        /\ Matchable(PredOf(i))
        /\ \E k \in 1..(origin[i].mi - 1) :
            /\ QualifiesStructurally(PredOf(i), markets[k])
            /\ ~HasValidAsk(markets[k])

\* ------------------------------------------------------------------------
\* Vocabulary of the envelope's properties: DER read back, tag and length

\* the number of bytes of the tag-and-length prefix that starts at position at
PrefixSize(bytes, at) ==
    IF bytes[at + 1] < 128 THEN 2 ELSE 2 + (bytes[at + 1] - 128)

\* the length that the prefix at position at states
StatedLength(bytes, at) ==
    IF bytes[at + 1] < 128 THEN bytes[at + 1]
    ELSE IF bytes[at + 1] = 129 THEN bytes[at + 2]
    ELSE IF bytes[at + 1] = 130 THEN 256 * bytes[at + 2] + bytes[at + 3]
    ELSE 0 - 1

\* the prefix at position at is in the shortest form for its length: short
\* below 128, one length octet below 256, two above
ShortestForm(bytes, at) ==
    /\ bytes[at + 1] \in (0..127) \cup {129, 130}
    /\ bytes[at + 1] = 129 => bytes[at + 2] >= 128
    /\ bytes[at + 1] = 130 => bytes[at + 2] >= 1

\* where the octet-string prefix starts: after the outer prefix, the 3 bytes
\* of the version and the 15 bytes of the algorithm identifier
OctetStringAt(bytes) == PrefixSize(bytes, 1) + 3 + 15 + 1

\* both length prefixes of a re-enveloped key are correct
PrefixesCorrect(raw, out) ==
    /\ out[1] = 48
    /\ ShortestForm(out, 1)
    /\ StatedLength(out, 1) = Len(out) - PrefixSize(out, 1)
    /\ out[OctetStringAt(out)] = 4
    /\ ShortestForm(out, OctetStringAt(out))
    /\ StatedLength(out, OctetStringAt(out)) = Len(raw)
    /\ Len(out) = OctetStringAt(out) - 1 + PrefixSize(out, OctetStringAt(out))
                    + Len(raw)
    /\ Len(out) - PrefixSize(out, 1)
            = 3 + 15 + PrefixSize(out, OctetStringAt(out)) + Len(raw)

\* the raw-key inputs that were re-enveloped
Wrapped == envelope.pc = "imported" /\ envelope.format = "pkcs1"

\* ------------------------------------------------------------------------
\* C25: for a raw key of any length from 0 to 65535 bytes both length
\* prefixes of the envelope are correct: the octet-string prefix states the
\* length of the raw key, the outer prefix states the length of all that
\* follows it, each in short form below 128 and with one or two length
\* octets above.
C25_LengthPrefixesCorrect ==
    (Wrapped /\ Len(envelope.der) <= 65535) =>
        PrefixesCorrect(envelope.der, envelope.pkcs8Der)

\* C25, where it holds: the prefixes are correct for every raw key whose
\* envelope content (the raw key and the 22 bytes before it) is at most 65535
\* bytes long, and the octet-string prefix alone is correct up to 65535
C25_CorrectUpToTwoOctetContent ==
    /\ (Wrapped /\ Len(envelope.der) + 22 <= 65535) =>
            PrefixesCorrect(envelope.der, envelope.pkcs8Der)
    /\ (Wrapped /\ Len(envelope.der) <= 65535) =>
            StatedLength(envelope.pkcs8Der, OctetStringAt(envelope.pkcs8Der))
                = Len(envelope.der)

\* C25, the longest raw key with correct prefixes was re-enveloped
C25_LongKeyWrapped ==
    /\ Wrapped
    /\ Len(envelope.der) = 65513

\* ------------------------------------------------------------------------
\* Vocabulary of the envelope read back as DER

\* the content of the element whose prefix starts at position at: as many
\* bytes after the prefix as the prefix states, or fewer when the bytes end
ContentAt(bytes, at) ==
    LET from == at + PrefixSize(bytes, at)
        upto == from + StatedLength(bytes, at) - 1
    IN  SubSeq(bytes, from, IF upto <= Len(bytes) THEN upto ELSE Len(bytes))

\* the octet string of a PKCS#8 envelope: the third element of the content
\* of the outer sequence, after the 3 bytes of the version and the 15 bytes of
\* the algorithm identifier; nothing when the content ends before it
Unwrap(bytes) ==
    LET content == ContentAt(bytes, 1)
    IN  IF Len(content) < 3 + 15 + 2 \/ content[3 + 15 + 1] # 4 THEN <<>>
        ELSE ContentAt(content, 3 + 15 + 1)

\* the envelope is laid out as outer prefix, version 0, RSA algorithm
\* identifier with NULL parameters, octet-string prefix, raw key
LaidOut(raw, out) ==
    LET at == OctetStringAt(out)
    IN  /\ out[1] = 48
        /\ SubSeq(out, PrefixSize(out, 1) + 1, PrefixSize(out, 1) + 3) = <<2, 1, 0>>
        /\ SubSeq(out, PrefixSize(out, 1) + 4, PrefixSize(out, 1) + 18)
                = <<48, 13, 6, 9, 42, 134, 72, 134, 247, 13, 1, 1, 1, 5, 0>>
        /\ out[at] = 4
        /\ Len(out) = at - 1 + PrefixSize(out, at) + Len(raw)
        /\ SubSeq(out, Len(out) - Len(raw) + 1, Len(out)) = raw

\* ------------------------------------------------------------------------
\* C26: a re-enveloped raw key is exactly the outer sequence prefix, the
\* version 0, the RSA algorithm identifier, the octet-string prefix and the
\* raw key unchanged as the last bytes; read back as DER, the octet string of
\* the envelope is the raw key; and a key that came wrapped is handed to the
\* import as it is.
C26_EnvelopeRoundTrip ==
    /\ Wrapped =>
            /\ LaidOut(envelope.der, envelope.pkcs8Der)
            /\ Unwrap(envelope.pkcs8Der) = envelope.der
    /\ (envelope.pc = "imported" /\ envelope.format = "pkcs8") =>
            envelope.pkcs8Der = envelope.der

\* C26, where it holds: the layout holds of every raw key and a wrapped key
\* is never changed; the octet string read back is the raw key whenever the
\* envelope content is at most 65535 bytes long
C26_LayoutAndPassThrough ==
    /\ Wrapped => LaidOut(envelope.der, envelope.pkcs8Der)
    /\ (Wrapped /\ Len(envelope.der) + 22 <= 65535) =>
            Unwrap(envelope.pkcs8Der) = envelope.der
    /\ (envelope.pc = "imported" /\ envelope.format = "pkcs8") =>
            envelope.pkcs8Der = envelope.der

\* C26, the round trip reached: a 2048-bit raw key was re-enveloped and reads
\* back as itself
C26_RoundTripWitness ==
    /\ Wrapped
    /\ Len(envelope.der) = 1190
    /\ Unwrap(envelope.pkcs8Der) = envelope.der

\* ------------------------------------------------------------------------
\* Vocabulary of the matcher's count of opportunities

\* the input positions of the predictions that have a structurally
\* qualifying instrument with a valid ask
Resolvable ==
    { pi \in DOMAIN predictions :
        /\ Matchable(predictions[pi])
        /\ \E mi \in DOMAIN markets :
            /\ QualifiesStructurally(predictions[pi], markets[mi])
            /\ HasValidAsk(markets[mi]) }

\* ------------------------------------------------------------------------
\* C27: the matcher returns one opportunity for every prediction that has a
\* qualifying instrument with a valid ask, also when two predictions resolve
\* to the same instrument, and it returns as many opportunities as there are
\* such predictions.
C27_OnePerResolvablePrediction ==
    mpc = "done" =>
        /\ \A pi \in Resolvable : Cardinality(OpportunitiesOf(pi)) = 1
        /\ Len(matched) = Cardinality(Resolvable)

\* C27, where it holds: every such prediction has its one opportunity, two
\* of them that resolve to the same instrument have two opportunities with
\* the same ticker, and the opportunities beyond those are the ones of
\* predictions with a label outside the abbreviation table
C27_NoDeduplication ==
    mpc = "done" =>
        /\ \A pi \in Resolvable : Cardinality(OpportunitiesOf(pi)) = 1
        /\ \A pi, pj \in Resolvable :
                pi # pj =>
                    \A i \in OpportunitiesOf(pi) : \A j \in OpportunitiesOf(pj) :
                        /\ i # j
                        /\ origin[i].mi = origin[j].mi =>
                                matched[i].marketTicker = matched[j].marketTicker
        /\ Len(matched) = Cardinality(Resolvable)
                + Cardinality({ i \in DOMAIN matched : ~Matchable(PredOf(i)) })

\* C27, the case reached: two predictions resolved to the same instrument
\* and the output holds two opportunities with its ticker
C27_SameInstrumentTwice ==
    /\ mpc = "done"
    /\ Len(matched) = 2
    /\ Cardinality(Resolvable) = 2
    /\ origin[1].mi = origin[2].mi
    /\ matched[1].marketTicker = matched[2].marketTicker

\* ------------------------------------------------------------------------
\* Vocabulary of the proxy's gate

\* the host a URL names: the authority runs from after "https://" to the
\* first "/", "?" or "#", and the host is what follows its last "@"
HostOf(url) ==
    LET start == 9
        Ends == { i \in start..Len(url) : url[i] \in {"/", "?", "#"} }
        stop == IF Ends = {} THEN Len(url) + 1
                ELSE CHOOSE i \in Ends : \A j \in Ends : i <= j
        Ats == { i \in start..(stop - 1) : url[i] = "@" }
        from == IF Ats = {} THEN start
                ELSE 1 + CHOOSE i \in Ats : \A j \in Ats : j <= i
    IN  SubSeq(url, from, stop - 1)

EXCHANGE_HOST == <<"a","p","i",".","e","l","e","c","t","i","o","n","s",".","k","a","l","s","h","i",".","c","o","m">>

\* the body of a POST parses as JSON
BodyParses(post) == post.wire # "not-json"

\* the path of a POST starts with /trade-api/v2
PathUnderApi(post) ==
    /\ post.wire = "object"
    /\ MatchesAt(post.json.path,
                 <<"/","t","r","a","d","e","-","a","p","i","/","v","2">>, 1)

\* the answer the four checks give, in their order, 0 when all pass
GateStatus(post) ==
    IF ~session.user THEN 401
    ELSE IF ~session.active THEN 403
    ELSE IF ~BodyParses(post) THEN 400
    ELSE IF ~PathUnderApi(post) THEN 400
    ELSE 0

\* request r was sent on to the exchange
SentUpstream(r) == \E u \in DOMAIN upstream : upstream[u].call = r

\* what the gate promises of the POSTs in Which
GateHolds(Which) ==
    /\ \A r \in Which :
          /\ SentUpstream(r) => GateStatus(toProxy[r]) = 0
          /\ GateStatus(toProxy[r]) # 0 =>
                /\ toProxy[r].state = "answered"
                /\ toProxy[r].status = GateStatus(toProxy[r])
                /\ ~SentUpstream(r)
    /\ \A u \in DOMAIN upstream :
          HostOf(upstream[u].request.url) = EXCHANGE_HOST

\* C28: the proxy sends a request upstream only for an authenticated caller
\* with an active subscription, a body that parses and a path under
\* /trade-api/v2; every other POST is answered 401, 403, 400 or 400, by the
\* first check that fails in that order, and nothing is sent upstream for it;
\* every upstream URL names the exchange's host
C28_ProxyGate == GateHolds(DOMAIN toProxy)

\* C28, the part that holds: the same for every POST whose body is not the
\* JSON value null
C28_GateForOtherBodies ==
    GateHolds({ r \in DOMAIN toProxy : toProxy[r].wire # "null" })

\* C28: a subscriber's POST was sent upstream and another was turned down
C28_Witness ==
    /\ session.active
    /\ \E r \in DOMAIN toProxy : SentUpstream(r) /\ toProxy[r].json.path # <<"/","t","r","a","d","e","-","a","p","i","/","v","2">>
    /\ \E r \in DOMAIN toProxy : toProxy[r].status = 400

\* ------------------------------------------------------------------------
\* Vocabulary of the manual bet row

\* the placements of row instance i that have not ended
InFlightOf(i) ==
    { o \in DOMAIN orders : orders[o].inst = i /\ orders[o].state = "in flight" }

\* this step sends an order
OrderSent == Len(orders') = Len(orders) + 1

C29_NoPriceWitness ==
    /\ ~HasPrice(row.game)
    /\ row.showBetForm
    /\ row.inst = MaxMounts

\* ------------------------------------------------------------------------
\* Vocabulary of the manual screen's refreshes

\* the calls of fetchMarkets, by their place in the order of starting
MarketRefreshes == { i \in DOMAIN refreshes : refreshes[i].kind = "markets" }

\* every call that was started has run to its end
AllCompleted == \A i \in DOMAIN refreshes : refreshes[i].pc = "done"

\* the call of fetchMarkets that started last
LastStarted == CHOOSE i \in MarketRefreshes : \A j \in MarketRefreshes : j <= i

\* the list shown was matched by a call that had its predictions, from the
\* screen's state or from its own query, and then its instruments
MatchedAfterBothFetched ==
    manual.markets.matched =>
        LET r == refreshes[manual.markets.from]
        IN  /\ r.kind = "markets"
            /\ r.pc = "done"
            /\ r.preds.version = manual.markets.preds
            /\ r.preds.version # 0 \/ r.refetched \/ ~r.preds.empty

\* C30: the list shown was matched after the predictions and the instruments
\* of its refresh were fetched, and once every refresh has completed, a
\* matched list on the screen is the one of the refresh that started last
C30_LastStartedRefreshShown ==
    /\ MatchedAfterBothFetched
    /\ (AllCompleted /\ manual.markets.matched) =>
            manual.markets.from = LastStarted

\* C30, the part that holds: matching follows both fetches of its refresh
C30_MatchedAfterBothFetched == MatchedAfterBothFetched

\* C30: two refreshes overlapped, both have completed, and a matched list is
\* shown
C30_OverlapWitness ==
    /\ AllCompleted
    /\ manual.markets.matched
    /\ Cardinality(MarketRefreshes) = 2
    /\ manual.markets.from = LastStarted

=============================================================================
